---- MODULE Spec2Model ----
(***************************************************************************)
(* State-machine model of the ACMI parser (AcmiParser) and of the          *)
(* trajectory builder (AcmiData.createSampledTrajectories).                *)
(*                                                                         *)
(* A file is modelled as the sequence of logical lines the line scanner    *)
(* dispatches to _parseLine; every action below is one call of _parseLine  *)
(* on one kind of record, followed by the end-of-buffer code of            *)
(* _parseContent/_parseBuffer and by the sampling loop of                  *)
(* createSampledTrajectories, one action per loop step.                    *)
(*                                                                         *)
(* The specifications share the state:                                     *)
(*   Spec         the records of a well-formed file with a valid header,   *)
(*                then the trajectory builder;                             *)
(*   SpecRecords  the header step (_parseHeader) on any first two lines,   *)
(*                then records that may be malformed;                      *)
(*   SpecParse    the promise returned by parse, on a text or a ZIP        *)
(*                container, with an optional AbortController, for the     *)
(*                two versions of parse in the sources (part_002 builds    *)
(*                the promise by hand, part_003 is an async function).     *)
(*   SpecDegraded the header step and records that may be malformed, then  *)
(*                the trajectory builder;                                  *)
(*   SpecRebuild  a well-formed file, then createSampledTrajectories       *)
(*                called twice, with or without emulateOrientation;        *)
(*   SpecSynth    Trajectory.emulateOrientations on trajectories of        *)
(*                positions;                                               *)
(*   SpecReuse    one parser used for one file after the other, with       *)
(*                reference rows (SpecFirstFile: its first file);          *)
(*   SpecStatics  the same with another parser of the same process;        *)
(*   SpecScan     the line scanner of _parseContent on physical lines;     *)
(*   SpecBytes    the line scanner on the bytes of a buffer;               *)
(*   SpecSlots    rows whose T field has 3, 5, 6 or 8 slots;               *)
(*   SpecOverlap  two calls of parse on one parser, the second made        *)
(*                before the first one's buffer is parsed;                 *)
(*   SpecRoll     Trajectory._computeRoll and _simpleSmooth on headings;   *)
(*   SpecRates    the trajectory builder with a sample rate of any sign.   *)
(*                                                                         *)
(* Instants (dayjs values) are records [valid, ms]; dayjs(null) is the     *)
(* invalid instant.  One model second is one tick of ms.                   *)
(* An optional number (number | undefined) is <<>> or <<v>>.               *)
(***************************************************************************)
EXTENDS Integers, Sequences, FiniteSets, TLC

\* ---------------------------------------------------------------- bounds
MaxLines == 4
MaxTime == 2
MaxRate == 2

\* ------------------------------------------------------- input alphabets
\* entity ids as decoded by parseInt(.., 16): 0xa, 0xb
Ids == {10, 11}
\* values of the `#` markers
TimeStamps == 0 .. MaxTime
\* sample rates passed to createSampledTrajectories
SampleRates == 1 .. MaxRate
\* values of the ReferenceTime global row, as instants in ticks
RefTimes == {100}
\* filters passed to parse
Filters == { {}, {"Air"}, {"Air", "Untyped"} }
\* entity.types when no Type field was ever read
NoTypes == <<>>
\* values of the Type field after value.split("+"); NoTypes: field absent
TypeFields == { NoTypes, <<"Air", "FixedWing">> }
\* the T field: NoT when absent, else the slots after coords.map(..)
NoT == <<"absent">>
TFields == { NoT,
             << <<0>>, <<0>>, <<0>> >>,
             << <<1>>, <<0>>, <<1>> >>,
             << <<>>, <<>>, <<>>, <<90>>, <<>>, <<>> >> }
\* entity rows: id, Type field, T field, destroyed=1 field
\* malformed: the row also holds a fragment without `=`
EntityRows == [types : TypeFields, t : TFields, destroyed : {FALSE},
               malformed : {FALSE}]
                \cup [types : {NoTypes}, t : {NoT}, destroyed : {TRUE},
                      malformed : {FALSE}]
\* global rows: the ReferenceTime value (<<>> when the row has none) and
\* whether the row also holds a fragment without `=`
\* ReferenceLongitude and ReferenceLatitude values, <<>> when the row has
\* none
GlobalRows == [referenceTime : {<<v>> : v \in RefTimes}, malformed : {FALSE},
               referenceLongitude : {<<>>}, referenceLatitude : {<<>>}]
\* ghost: no reference row read yet
NoReference == [longitude |-> 0, latitude |-> 0]
\* ghost: _computeRoll not called yet; h0, h1: the headings of its last
\* call, alpha: the turn angle it found, raw: the roll it passed to
\* _simpleSmooth, n: the number of calls
NoTurn == [h0 |-> 0, h1 |-> 0, alpha |-> 0, raw |-> 0, n |-> 0]
\* parse not called yet; data: the AcmiData a call resolved with, 0 before
NoCalls == [k \in 1 .. 2 |-> [state |-> "none", data |-> 0]]

\* the result of unary + on a token that is not a number
NaN == -1
\* the operator !== on numbers: NaN differs from every number and itself
StrictNotEqual(a, b) == a = NaN \/ b = NaN \/ a # b

\* ------------------------------------------------------------- instants
InvalidTime == [valid |-> FALSE, ms |-> 0]
Instant(ms) == [valid |-> TRUE, ms |-> ms]
\* dayjs.add(seconds, "seconds"): an invalid instant stays invalid
AddSeconds(time, seconds) ==
  IF time.valid /\ seconds # NaN THEN Instant(time.ms + seconds)
  ELSE InvalidTime
\* dayjs.isSameOrBefore: false when either side is invalid
IsSameOrBefore(a, b) == a.valid /\ b.valid /\ a.ms <= b.ms
\* dayjs.duration(b.diff(a)).asSeconds()
DiffSeconds(b, a) == b.ms - a.ms

\* ------------------------------------------------------------ TimeSpan
NewTimeSpan == [start |-> InvalidTime, end |-> InvalidTime]
TimeSpanIsValid(span) == span.start.valid /\ span.end.valid
TimeSpanDuration(span) ==
  IF TimeSpanIsValid(span) THEN DiffSeconds(span.end, span.start) ELSE -1

\* ------------------------------------------------------------ Transform
Slot(components, i) == IF i <= Len(components) THEN components[i] ELSE <<>>
\* toRadians, in milliradians
ToRadians(deg) == (deg * 31416) \div 1800
\* a scene maps ids to transforms; SceneGet is Map.get (<<>> when undefined)
SceneHas(scene, id) == id \in DOMAIN scene
SceneSet(scene, id, tr) ==
  [k \in (DOMAIN scene) \cup {id} |-> IF k = id THEN tr ELSE scene[k]]
SceneDelete(scene, ids) == [k \in (DOMAIN scene) \ ids |-> scene[k]]
EmptyScene == [k \in {} |-> <<>>]
\* ---------------------------------------------------------------- Frame
\* new Frame(timeStamp, scene): the scene is copied
NewFrame(timeStamp, scene) == [timeStamp |-> timeStamp, scene |-> scene]

\* --------------------------------------------------------------- Entity
NewEntity(id) == [id |-> id, timeSpan |-> NewTimeSpan, types |-> NoTypes]

\* --------------------------------------------------------------- Header
NewHeader == [fileType |-> "", fileVersion |-> ""]
AcmiType == "text/acmi/tacview"
AcmiVersions == {"2.1", "2.2"}
IsValidType(h) == h.fileType = AcmiType
IsValidVersion(h) == h.fileVersion \in AcmiVersions

VARIABLES
  pc,                \* "header", "parsing", "parsed", "sampling", "tail",
                     \* "done"
  header,            \* AcmiData.header
  lines,             \* number of logical lines dispatched so far
  filter,            \* AcmiParser._filter
  isValid,           \* AcmiData.isValid
  referenceTime,     \* AcmiData.globalProperties.referenceTime
  timeSpan,          \* AcmiData.timeSpan
  entities,          \* AcmiData.entities
  frames,            \* AcmiData.frames
  currentTimeStamp,  \* AcmiParser._currentTimeStamp
  currentFrame,      \* AcmiParser._currentFrame
  currentPushed,     \* whether the _currentFrame object is also the last
                     \* element of AcmiData.frames
  destroyedIds,      \* AcmiParser._destroyedIds
  filteredIds,       \* AcmiParser._filteredIds (the kept set)
  sampleRate,        \* options.sampleRate
  timeStamp,         \* loop variable of createSampledTrajectories
  trajectories,      \* the map built by createSampledTrajectories
  history,           \* ghost: what the file contained so far
  variant,           \* which AcmiParser.parse runs: "part_002", "part_003"
  input,             \* the data passed to parse
  controller,        \* options.controller and its signal
  promise,           \* the promise returned by parse
  step,              \* where the call of parse stands: "idle", "unzip",
                     \* "buffer", "resolving", "thrown", "done"
  refLong,           \* Transform.refLong (static)
  refLat,            \* Transform.refLat (static)
  geoid,             \* Transform.geoid (static): <<>> when undefined
  currentLine,       \* AcmiParser._currentLine
  dispatched,        \* ghost: the logical lines passed to _parseLine
  emulateOrientation,\* options.emulateOrientation
  previous,          \* ghost: the result of the previous call of
                     \* createSampledTrajectories, <<>> before any
  seenReference,     \* ghost: the values of the last ReferenceLongitude
                     \* and ReferenceLatitude rows of the file being read
  lastRoll,          \* Trajectory._lastRoll, in thousandths of a degree
  turn,              \* ghost: the headings and the signed turn angle of
                     \* the last call of _computeRoll, in degrees
  calls,             \* the calls of parse on one parser: where each
                     \* stands and which AcmiData it resolved with
  thisData,          \* which AcmiData AcmiParser._data refers to
  running            \* the call whose _parseBuffer is running, 0: none

parserVars == << filter, isValid, referenceTime, timeSpan, entities, frames,
                 currentTimeStamp, currentFrame, currentPushed, destroyedIds,
                 filteredIds >>
builderVars == << sampleRate, timeStamp, trajectories >>
textVars == << pc, header, lines, parserVars, builderVars, history >>
asyncVars == << variant, input, controller, promise, step >>
staticVars == << refLong, refLat, geoid >>
scanVars == << currentLine, dispatched >>
rebuildVars == << emulateOrientation, previous >>
rollVars == << lastRoll, turn >>
overlapVars == << calls, thisData, running >>
extraVars == << staticVars, scanVars, rebuildVars, seenReference, rollVars,
               overlapVars >>
vars == << textVars, asyncVars, extraVars >>

\* ------------------------------------------------- Transform constructor
\* Transform.geoid?.getHeight(latitude, longitude) ?? 0: a geoid is kept as
\* the one height of its grid
GeoidHeight == IF geoid = <<>> THEN 0 ELSE geoid[1]
\* new Transform(components, previousTransform) with every missing angle
\* taken as 0 instead of the previous one
NewTransformWithoutInheritance(components, hasPrev, prev) ==
  LET c(i) == Slot(components, i)
      prevOri == IF hasPrev THEN prev.orientation ELSE <<>>
      position ==
        IF c(1) # <<>> \/ c(2) # <<>> \/ c(3) # <<>>
        THEN << IF c(1) # <<>> THEN c(1)[1] + refLong
                ELSE IF hasPrev THEN prev.position[1] ELSE refLong,
                IF c(2) # <<>> THEN c(2)[1] + refLat
                ELSE IF hasPrev THEN prev.position[2] ELSE refLat,
                IF c(3) # <<>> THEN c(3)[1] + GeoidHeight
                ELSE IF hasPrev THEN prev.position[3] ELSE GeoidHeight >>
        ELSE IF hasPrev THEN prev.position ELSE <<0, 0, 0>>
      angle(i) == IF c(3 + i) # <<>> THEN ToRadians(c(3 + i)[1]) ELSE 0
      orientation ==
        IF c(4) # <<>> \/ c(5) # <<>> \/ c(6) # <<>>
        THEN << angle(1), angle(2), angle(3) >>
        ELSE prevOri
  IN [position |-> position, orientation |-> orientation]
\* new Transform(components, previousTransform); hasPrev: previous defined.
\* A longitude or latitude read from the row is added to Transform.refLong
\* or Transform.refLat, an altitude to the geoid height; a missing one is
\* the previous one, or the reference or the geoid height without previous
\* transform. orientation is <<>> when undefined, else <<roll, pitch, yaw>>
NewTransform(components, hasPrev, prev) ==
  LET c(i) == Slot(components, i)
      prevOri == IF hasPrev THEN prev.orientation ELSE <<>>
      position ==
        IF c(1) # <<>> \/ c(2) # <<>> \/ c(3) # <<>>
        THEN << IF c(1) # <<>> THEN c(1)[1] + refLong
                ELSE IF hasPrev THEN prev.position[1] ELSE refLong,
                IF c(2) # <<>> THEN c(2)[1] + refLat
                ELSE IF hasPrev THEN prev.position[2] ELSE refLat,
                IF c(3) # <<>> THEN c(3)[1] + GeoidHeight
                ELSE IF hasPrev THEN prev.position[3] ELSE GeoidHeight >>
        ELSE IF hasPrev THEN prev.position ELSE <<0, 0, 0>>
      angle(i) == IF c(3 + i) # <<>> THEN ToRadians(c(3 + i)[1])
                  ELSE IF prevOri # <<>> THEN prevOri[i] ELSE 0
      orientation ==
        IF c(4) # <<>> \/ c(5) # <<>> \/ c(6) # <<>>
        THEN << angle(1), angle(2), angle(3) >>
        ELSE prevOri
  IN [position |-> position, orientation |-> orientation]

\* ---------------------------------------------- the promise of parse
\* the number of slots of the T field of each entity row of a text, 0 for
\* a row without T field; all rows are of kept entities
TSlotCounts == {0, 1, 2, 3, 6}
Contents == {<<>>} \cup {<<a>> : a \in TSlotCounts}
              \cup {<<a, b>> : a \in TSlotCounts, b \in TSlotCounts}
\* the data passed to parse: a text, or a ZIP container (it starts with
\* `PK`) with its number of entries, whether the extraction works, and
\* the text of its first entry
PlainInputs == [zipped : {FALSE}, entries : {1}, extraction : {"ok"},
                content : Contents]
ZippedInputs == [zipped : {TRUE}, entries : 0 .. 2,
                 extraction : {"ok", "fails"}, content : Contents]
\* options.controller: absent, or present with a signal not yet aborted;
\* listening: parse has registered its abort listener; abortedAt: ghost,
\* the step at which abort() was called
NoController == [present |-> FALSE, aborted |-> FALSE, listening |-> FALSE,
                 abortedAt |-> "never"]
NewController == [NoController EXCEPT !.present = TRUE]
\* promise states and settlement values
Pending == [state |-> "pending", kind |-> "", content |-> <<>>]
Resolved(content) ==
  [state |-> "resolved", kind |-> "AcmiData", content |-> content]
Rejected(reason) == [state |-> "rejected", kind |-> reason, content |-> <<>>]

\* ghost: the markers read; the Type field of the first row of every id;
\* for every frame, by its position in the frame list (the current frame
\* has position Len(frames) + 1), the ids of the removal records and of the
\* rows with a T field read while that frame was current
NewHistory == [markers |-> <<>>,
               firstTypes |-> [k \in {} |-> NoTypes],
               removed |-> << {} >>,
               updated |-> << {} >>]

\* AcmiParser.parse: the reset of the parsing state, and the header step
\* on a buffer that starts with the header of a Tacview 2.2 text file
Init ==
  /\ pc = "parsing"
  /\ header = [fileType |-> AcmiType, fileVersion |-> "2.2"]
  /\ lines = 0
  /\ filter \in Filters
  /\ isValid = TRUE
  /\ referenceTime = InvalidTime
  /\ timeSpan = NewTimeSpan
  /\ entities = [k \in {} |-> NewEntity(k)]
  /\ frames = <<>>
  /\ currentTimeStamp = 0
  /\ currentFrame = NewFrame(0, EmptyScene)
  /\ currentPushed = FALSE
  /\ destroyedIds = {}
  /\ filteredIds = {}
  /\ sampleRate = 1
  /\ timeStamp = 0
  /\ trajectories = [k \in {} |-> <<>>]
  /\ history = NewHistory
  /\ variant = "part_003"
  /\ input = [zipped |-> FALSE, entries |-> 1, extraction |-> "ok",
              content |-> <<>>]
  /\ controller = NoController
  /\ promise = Pending
  /\ step = "buffer"
  /\ refLong = 0
  /\ refLat = 0
  /\ geoid = <<>>
  /\ currentLine = <<>>
  /\ dispatched = <<>>
  /\ emulateOrientation = FALSE
  /\ previous = <<>>
  /\ seenReference = NoReference
  /\ lastRoll = 0
  /\ turn = NoTurn
  /\ calls = NoCalls
  /\ thisData = 1
  /\ running = 0

CanRead == pc = "parsing" /\ lines < MaxLines

\* _parseLine on a global row `0,<fragments>`: every fragment is handled
\* by itself, a fragment without `=` clears isValid; a ReferenceLongitude
\* or ReferenceLatitude fragment sets the static of Transform
GlobalRow(row) ==
  /\ CanRead
  /\ lines' = lines + 1
  /\ referenceTime' = IF row.referenceTime # <<>>
                      THEN Instant(row.referenceTime[1]) ELSE referenceTime
  /\ isValid' = IF row.malformed THEN FALSE ELSE isValid
  /\ refLong' = IF row.referenceLongitude # <<>>
                THEN row.referenceLongitude[1] ELSE refLong
  /\ refLat' = IF row.referenceLatitude # <<>>
               THEN row.referenceLatitude[1] ELSE refLat
  /\ seenReference' =
       [longitude |-> IF row.referenceLongitude # <<>>
                      THEN row.referenceLongitude[1]
                      ELSE seenReference.longitude,
        latitude |-> IF row.referenceLatitude # <<>>
                     THEN row.referenceLatitude[1]
                     ELSE seenReference.latitude]
  /\ UNCHANGED << pc, header, filter, timeSpan, entities, frames,
                  currentTimeStamp, currentFrame, currentPushed, destroyedIds,
                  filteredIds, builderVars, history >>
  /\ UNCHANGED << asyncVars, geoid, scanVars, rebuildVars, rollVars,
                  overlapVars >>

\* _parseLine on `#<newTimeStamp>`; held: the frame list, whose last
\* element is the current frame object when currentPushed
TimeMarker(newTimeStamp) ==
  LET cleaned == NewFrame(currentFrame.timeStamp,
                          SceneDelete(currentFrame.scene, destroyedIds))
      held == IF currentPushed THEN [frames EXCEPT ![Len(frames)] = cleaned]
              ELSE frames
  IN
  /\ CanRead
  /\ lines' = lines + 1
  /\ destroyedIds' = {}
  /\ IF StrictNotEqual(newTimeStamp, currentTimeStamp)
     THEN /\ frames' = Append(held, cleaned)
          /\ currentTimeStamp' = newTimeStamp
          /\ currentFrame' = NewFrame(newTimeStamp, cleaned.scene)
          /\ currentPushed' = FALSE
          /\ history' = [history EXCEPT !.markers = Append(@, newTimeStamp),
                                        !.removed = Append(@, {}),
                                        !.updated = Append(@, {})]
     ELSE /\ frames' = held
          /\ currentTimeStamp' = currentTimeStamp
          /\ currentFrame' = cleaned
          /\ currentPushed' = currentPushed
          /\ history' = [history EXCEPT !.markers = Append(@, newTimeStamp)]
  /\ UNCHANGED << pc, header, filter, isValid, referenceTime, timeSpan,
                  entities, filteredIds, builderVars >>
  /\ UNCHANGED << asyncVars, extraVars >>

\* _parseLine on `-<id>`
Removal(id) ==
  /\ CanRead
  /\ lines' = lines + 1
  /\ entities' =
       IF id \in DOMAIN entities
       THEN [entities EXCEPT ![id].timeSpan.end =
               AddSeconds(referenceTime, currentTimeStamp)]
       ELSE entities
  /\ destroyedIds' =
       IF id \in filteredIds THEN destroyedIds \cup {id} ELSE destroyedIds
  /\ history' = [history EXCEPT !.removed[Len(frames) + 1] = @ \cup {id}]
  /\ UNCHANGED << pc, header, filter, isValid, referenceTime, timeSpan,
                  frames, currentTimeStamp, currentFrame, currentPushed,
                  filteredIds, builderVars >>
  /\ UNCHANGED << asyncVars, extraVars >>

\* the filter decision of _parseLine for a new entity
Keep(types) ==
  IF filter # {}
  THEN IF types # NoTypes
       THEN \A i \in 1 .. Len(types) : types[i] \notin filter
       ELSE "Untyped" \notin filter
  ELSE TRUE

\* _parseLine on a row that is no global row, marker or removal and has no
\* comma
RowWithoutComma ==
  /\ CanRead
  /\ lines' = lines + 1
  /\ isValid' = FALSE
  /\ UNCHANGED << pc, header, filter, referenceTime, timeSpan, entities,
                  frames, currentTimeStamp, currentFrame, currentPushed,
                  destroyedIds, filteredIds, builderVars, history >>
  /\ UNCHANGED << asyncVars, extraVars >>

\* EntityUpsert storing the transform of a row whatever the filter decided
EntityUpsertUnfiltered(id, row) ==
  LET newEntity == id \notin DOMAIN entities
      created == IF newEntity
                 THEN [NewEntity(id) EXCEPT !.timeSpan.start =
                         AddSeconds(referenceTime, currentTimeStamp)]
                 ELSE entities[id]
      typed == IF row.types # NoTypes
               THEN [created EXCEPT !.types = row.types] ELSE created
      entityProps ==
        IF row.destroyed
        THEN [typed EXCEPT !.timeSpan.end =
                AddSeconds(referenceTime, currentTimeStamp)]
        ELSE typed
      keep == Keep(entityProps.types)
      stored == IF newEntity THEN keep ELSE TRUE
      kept == IF newEntity /\ keep THEN filteredIds \cup {id} ELSE filteredIds
  IN
  /\ CanRead
  /\ lines' = lines + 1
  /\ entities' =
       IF stored
       THEN [k \in (DOMAIN entities) \cup {id} |->
               IF k = id THEN entityProps ELSE entities[k]]
       ELSE entities
  /\ filteredIds' = kept
  /\ currentFrame' =
       IF row.t # NoT
       THEN [currentFrame EXCEPT !.scene =
               SceneSet(@, id,
                 NewTransform(row.t, SceneHas(@, id),
                   IF SceneHas(@, id) THEN @[id]
                   ELSE [position |-> <<0, 0, 0>>, orientation |-> <<>>]))]
       ELSE currentFrame
  /\ history' =
       [history EXCEPT
          !.firstTypes =
            IF id \in DOMAIN @ THEN @
            ELSE [k \in (DOMAIN @) \cup {id} |->
                    IF k = id THEN row.types ELSE @[k]],
          !.updated[Len(frames) + 1] =
            IF id \in kept /\ row.t # NoT THEN @ \cup {id} ELSE @]
  /\ frames' = IF currentPushed
               THEN [frames EXCEPT ![Len(frames)] = currentFrame']
               ELSE frames
  /\ isValid' = IF row.malformed THEN FALSE ELSE isValid
  /\ UNCHANGED << pc, header, filter, referenceTime, timeSpan,
                  currentTimeStamp, currentPushed, destroyedIds,
                  builderVars >>
  /\ UNCHANGED << asyncVars, extraVars >>

\* _parseLine on `<id>,<fields>`: every fragment is handled by itself, a
\* fragment without `=` clears isValid; the scene that is updated is also
\* the scene of the last pushed frame when currentPushed
EntityUpsert(id, row) ==
  LET newEntity == id \notin DOMAIN entities
      created == IF newEntity
                 THEN [NewEntity(id) EXCEPT !.timeSpan.start =
                         AddSeconds(referenceTime, currentTimeStamp)]
                 ELSE entities[id]
      typed == IF row.types # NoTypes
               THEN [created EXCEPT !.types = row.types] ELSE created
      entityProps ==
        IF row.destroyed
        THEN [typed EXCEPT !.timeSpan.end =
                AddSeconds(referenceTime, currentTimeStamp)]
        ELSE typed
      keep == Keep(entityProps.types)
      stored == IF newEntity THEN keep ELSE TRUE
      kept == IF newEntity /\ keep THEN filteredIds \cup {id} ELSE filteredIds
  IN
  /\ CanRead
  /\ lines' = lines + 1
  /\ entities' =
       IF stored
       THEN [k \in (DOMAIN entities) \cup {id} |->
               IF k = id THEN entityProps ELSE entities[k]]
       ELSE entities
  /\ filteredIds' = kept
  /\ currentFrame' =
       IF id \in kept /\ row.t # NoT
       THEN [currentFrame EXCEPT !.scene =
               SceneSet(@, id,
                 NewTransform(row.t, SceneHas(@, id),
                   IF SceneHas(@, id) THEN @[id]
                   ELSE [position |-> <<0, 0, 0>>, orientation |-> <<>>]))]
       ELSE currentFrame
  /\ history' =
       [history EXCEPT
          !.firstTypes =
            IF id \in DOMAIN @ THEN @
            ELSE [k \in (DOMAIN @) \cup {id} |->
                    IF k = id THEN row.types ELSE @[k]],
          !.updated[Len(frames) + 1] =
            IF id \in kept /\ row.t # NoT THEN @ \cup {id} ELSE @]
  /\ frames' = IF currentPushed
               THEN [frames EXCEPT ![Len(frames)] = currentFrame']
               ELSE frames
  /\ isValid' = IF row.malformed THEN FALSE ELSE isValid
  /\ UNCHANGED << pc, header, filter, referenceTime, timeSpan,
                  currentTimeStamp, currentPushed, destroyedIds,
                  builderVars >>
  /\ UNCHANGED << asyncVars, extraVars >>

\* index of the first frame with a non-empty scene, 0 when there is none
FirstNonEmptyFrameIndex(fs) ==
  LET S == {i \in 1 .. Len(fs) : DOMAIN fs[i].scene # {}}
  IN IF S = {} THEN 0 ELSE CHOOSE i \in S : \A j \in S : i <= j

\* end of _parseContent (after the byte loop) and end of _parseBuffer
EndOfBuffer ==
  LET pushed == IF Len(frames) > 0 THEN Append(frames, currentFrame)
                ELSE frames
      first == FirstNonEmptyFrameIndex(pushed)
      spanSet == Len(frames) > 0 /\ referenceTime.valid /\ first # 0
      span == IF spanSet
              THEN [start |-> AddSeconds(referenceTime,
                                         pushed[first].timeStamp),
                    end |-> AddSeconds(referenceTime,
                                       pushed[Len(pushed)].timeStamp)]
              ELSE timeSpan
  IN
  /\ pc = "parsing"
  /\ pc' = "parsed"
  /\ frames' = pushed
  /\ currentPushed' = (currentPushed \/ Len(frames) > 0)
  /\ timeSpan' = span
  /\ isValid' = IF Len(frames) > 0 /\ ~spanSet THEN FALSE ELSE isValid
  /\ entities' =
       [k \in DOMAIN entities |->
          IF ~entities[k].timeSpan.end.valid
          THEN [entities[k] EXCEPT !.timeSpan.end = span.end]
          ELSE entities[k]]
  /\ UNCHANGED << header, lines, filter, referenceTime, currentTimeStamp,
                  currentFrame, destroyedIds, filteredIds, builderVars,
                  history >>
  /\ promise' = Resolved(input.content)
  /\ step' = "done"
  /\ UNCHANGED << variant, input, controller, extraVars >>

ParseNext ==
  \/ \E row \in GlobalRows : GlobalRow(row)
  \/ \E t \in TimeStamps : TimeMarker(t)
  \/ \E id \in Ids : Removal(id)
  \/ \E id \in Ids, row \in EntityRows : EntityUpsert(id, row)
  \/ EndOfBuffer

\* ------------------------------------------------- trajectory builder
\* AcmiData._searchFrameIndex: binary search for the last frame whose
\* timeStamp is <= searchedTimeStamp; 0 when there is none (-1 in the code);
\* a comparison with a NaN timeStamp is false
RECURSIVE SearchLoop(_, _, _, _, _)
SearchLoop(fs, searchedTimeStamp, index, lowIndex, highIndex) ==
  IF lowIndex <= highIndex
  THEN LET midIndex == lowIndex + ((highIndex - lowIndex) \div 2)
       IN IF fs[midIndex].timeStamp # NaN
             /\ fs[midIndex].timeStamp - searchedTimeStamp <= 0
          THEN SearchLoop(fs, searchedTimeStamp, midIndex, midIndex + 1,
                          highIndex)
          ELSE SearchLoop(fs, searchedTimeStamp, index, lowIndex,
                          midIndex - 1)
  ELSE index
SearchFrameIndex(fs, searchedTimeStamp) ==
  SearchLoop(fs, searchedTimeStamp, 0, 1, Len(fs))

\* getFrame measuring the time from timeSpan.start instead of referenceTime
GetFrameFromSpanStart(time) ==
  IF TimeSpanIsValid(timeSpan)
     /\ IsSameOrBefore(timeSpan.start, time)
     /\ IsSameOrBefore(time, timeSpan.end)
  THEN SearchFrameIndex(frames, DiffSeconds(time, timeSpan.start))
  ELSE 0

\* AcmiData.getFrame: the index in frames of the frame returned,
\* 0 when the result is undefined
GetFrame(time) ==
  IF TimeSpanIsValid(timeSpan)
     /\ IsSameOrBefore(referenceTime, time)
     /\ IsSameOrBefore(time, timeSpan.end)
  THEN SearchFrameIndex(frames, DiffSeconds(time, referenceTime))
  ELSE 0

\* StateVector.fromTransform: the ECEF position of (lon, lat, alt), the same
\* for longitudes a whole turn apart, and the quaternion, undefined (<<>>)
\* when the transform has no orientation
FromTransform(transform) ==
  LET cartesian == << transform.position[1] % 360, transform.position[2],
                      transform.position[3] >>
  IN [cartesian |-> cartesian,
      quaternion |-> IF transform.orientation # <<>>
                     THEN << cartesian, transform.orientation >>
                     ELSE <<>>]

\* StateVector.equals, called on the new state vector with the last sample's
StateVectorEquals(this, stateVector) ==
  /\ stateVector.cartesian = this.cartesian
  /\ IF this.quaternion # <<>>
     THEN stateVector.quaternion # <<>>
          /\ stateVector.quaternion = this.quaternion
     ELSE stateVector.quaternion = <<>>

\* AddSample without the comparison with the last sample
AddSampleNoDedup(samples, time, transform, lastFrame) ==
  Append(samples, [time |-> time, stateVector |-> FromTransform(transform),
                   lastFrame |-> lastFrame])

\* the samples of one id after AcmiData._addFrame visited its transform;
\* the field lastFrame of a sample records the call's lastFrame argument
AddSample(samples, time, transform, lastFrame) ==
  LET stateVector == FromTransform(transform)
      length == Len(samples)
  IN IF ~lastFrame /\ length > 0
        /\ StateVectorEquals(stateVector, samples[length].stateVector)
     THEN samples
     ELSE Append(samples, [time |-> time, stateVector |-> stateVector,
                           lastFrame |-> lastFrame])

\* AcmiData._addFrame
AddFrame(time, frame, trajs, lastFrame) ==
  [id \in (DOMAIN trajs) \cup (DOMAIN frame.scene) |->
     IF id \in DOMAIN frame.scene
     THEN AddSample(IF id \in DOMAIN trajs THEN trajs[id] ELSE <<>>,
                    time, frame.scene[id], lastFrame)
     ELSE trajs[id]]

\* ---------------------------------------------- orientation synthesizer
\* Quaternions are pairs << position, angles >>. The quaternion of
\* heading = pitch = roll = 0 in the local frame at position p is the one
\* fromTransform gives for a transform at p with a zero orientation.
DefaultQuaternion(p) == << p, <<0, 0, 0>> >>
\* Trajectory._computeRoll and _simpleSmooth: the roll is a function of the
\* two positions, of the third position through q1, of dt0, and of
\* _lastRoll; it is kept as the sequence of these arguments. dt1 is an
\* argument of q1.
ComputeRoll(s0, s1, s2, rollBefore) ==
  s0.stateVector.cartesian \o s1.stateVector.cartesian
    \o s2.stateVector.cartesian
    \o << DiffSeconds(s1.time, s0.time), DiffSeconds(s2.time, s1.time) >>
    \o rollBefore
\* Trajectory._computeOrientation: [quaternion, roll]. With no speed (the
\* two positions are equal) the default quaternion, and _lastRoll is not
\* touched; else the quaternion of the velocity p1 - p0 at p0, rolled.
ComputeOrientation(s0, s1, s2, withRoll, rollBefore) ==
  LET p0 == s0.stateVector.cartesian
      p1 == s1.stateVector.cartesian
      roll == IF withRoll THEN ComputeRoll(s0, s1, s2, rollBefore) ELSE <<>>
  IN IF p1 # p0
     THEN [quaternion |-> << p0, p0 \o p1 \o roll >>,
           lastRoll |-> IF withRoll THEN roll ELSE rollBefore]
     ELSE [quaternion |-> DefaultQuaternion(p0), lastRoll |-> rollBefore]
SetQuaternion(sample, q) == [sample EXCEPT !.stateVector.quaternion = q]
\* the for loop of emulateOrientations; i and length are the code's
\* 0-based values, samples[i + 1] is the code's samples[i]
RECURSIVE EmulateLoop(_, _, _, _, _)
EmulateLoop(samples, i, length, withRoll, rollBefore) ==
  IF i < length
  THEN LET r == ComputeOrientation(samples[i + 1], samples[i + 2],
                                   samples[i + 3], withRoll, rollBefore)
       IN EmulateLoop([samples EXCEPT
                         ![i + 1] = SetQuaternion(@, r.quaternion)],
                      i + 1, length, withRoll, r.lastRoll)
  ELSE samples

\* emulateOrientations without the assignment to the last sample
EmulateOrientationsShortTail(samples, withRoll) ==
  LET length == Len(samples) - 2
  IN IF length < 1
     THEN [k \in 1 .. Len(samples) |->
             SetQuaternion(samples[k],
               DefaultQuaternion(samples[k].stateVector.cartesian))]
     ELSE LET looped == EmulateLoop(samples, 0, length, withRoll, <<>>)
          IN [looped EXCEPT
                ![length + 1] =
                  SetQuaternion(@, looped[length].stateVector.quaternion)]

\* Trajectory.emulateOrientations on a new Trajectory (_lastRoll = 0, kept
\* as <<>>)
EmulateOrientations(samples, withRoll) ==
  LET length == Len(samples) - 2
  IN IF length < 1
     THEN [k \in 1 .. Len(samples) |->
             SetQuaternion(samples[k],
               DefaultQuaternion(samples[k].stateVector.cartesian))]
     ELSE LET looped == EmulateLoop(samples, 0, length, withRoll, <<>>)
          IN [looped EXCEPT
                ![length + 1] =
                  SetQuaternion(@, looped[length].stateVector.quaternion),
                ![length + 2] =
                  SetQuaternion(@, looped[length].stateVector.quaternion)]

\* the end of createSampledTrajectories: with options.emulateOrientation
\* every trajectory is passed to emulateOrientations(true)
Emulated(trajs) ==
  IF emulateOrientation
  THEN [id \in DOMAIN trajs |-> EmulateOrientations(trajs[id], TRUE)]
  ELSE trajs

\* createSampledTrajectories, up to the first test of the do-while loop
CreateSampledTrajectories(rate) ==
  /\ pc = "parsed"
  /\ sampleRate' = rate
  /\ timeStamp' = 0
  /\ trajectories' = [k \in {} |-> <<>>]
  /\ pc' = IF TimeSpanIsValid(timeSpan) THEN "sampling" ELSE "done"
  /\ UNCHANGED << header, lines, parserVars, history >>
  /\ UNCHANGED << asyncVars, extraVars >>

\* SampleStep advancing by one second whatever the sample rate
SampleStepUnitRate ==
  LET time == AddSeconds(timeSpan.start, timeStamp)
      frame == GetFrame(time)
  IN
  /\ pc = "sampling"
  /\ trajectories' = IF frame # 0
                     THEN AddFrame(time, frames[frame], trajectories, FALSE)
                     ELSE trajectories
  /\ timeStamp' = timeStamp + 1
  /\ pc' = IF timeStamp' <= TimeSpanDuration(timeSpan)
           THEN "sampling" ELSE "tail"
  /\ UNCHANGED << header, lines, parserVars, sampleRate, history >>
  /\ UNCHANGED << asyncVars, extraVars >>

\* one iteration of the do-while loop
SampleStep ==
  LET time == AddSeconds(timeSpan.start, timeStamp)
      frame == GetFrame(time)
  IN
  /\ pc = "sampling"
  /\ trajectories' = IF frame # 0
                     THEN AddFrame(time, frames[frame], trajectories, FALSE)
                     ELSE trajectories
  /\ timeStamp' = timeStamp + sampleRate
  /\ pc' = IF timeStamp' <= TimeSpanDuration(timeSpan)
           THEN "sampling" ELSE "tail"
  /\ UNCHANGED << header, lines, parserVars, sampleRate, history >>
  /\ UNCHANGED << asyncVars, extraVars >>

\* the code after the loop: the sample at timeSpan.end, then the
\* orientation synthesizer when asked for
TailStep ==
  LET endFrame == GetFrame(timeSpan.end)
  IN
  /\ pc = "tail"
  /\ trajectories' =
       Emulated(IF timeStamp > TimeSpanDuration(timeSpan) /\ endFrame # 0
                THEN AddFrame(timeSpan.end, frames[endFrame], trajectories,
                              TRUE)
                ELSE trajectories)
  /\ pc' = "done"
  /\ UNCHANGED << header, lines, parserVars, sampleRate, timeStamp,
                  history >>
  /\ UNCHANGED << asyncVars, extraVars >>

BuildNext ==
  \/ \E rate \in SampleRates : CreateSampledTrajectories(rate)
  \/ SampleStep
  \/ TailStep

Next == ParseNext \/ BuildNext

Spec == Init /\ [][Next]_vars

\* ------------------------------------ header step and malformed records
\* what _headerPattern finds in the first 64 bytes of the buffer: no match,
\* or the captured type and version
HeaderMatches ==
  { [matched |-> FALSE, type |-> "", version |-> ""],
    [matched |-> TRUE, type |-> AcmiType, version |-> "2.1"],
    [matched |-> TRUE, type |-> AcmiType, version |-> "2.2"],
    [matched |-> TRUE, type |-> AcmiType, version |-> "3.0"],
    [matched |-> TRUE, type |-> "text/acmi/other", version |-> "2.2"] }
\* the rows of a file with malformed records: one entity id; markers with
\* a number or with a token that is no number; a T field whose first slot
\* is no number; rows with a fragment without `=`
RecordIds == {10}
RecordMarkers == {1, NaN}
RecordGlobalRows ==
  [referenceTime : {<<100>>}, malformed : BOOLEAN,
   referenceLongitude : {<<>>}, referenceLatitude : {<<>>}]
RecordEntityRows ==
  [types : {NoTypes},
   t : {NoT, << <<0>>, <<0>>, <<0>> >>, << <<NaN>>, <<0>>, <<0>> >>},
   destroyed : {FALSE},
   malformed : BOOLEAN]

\* AcmiParser.parse: the reset of the parsing state, before the header step
InitRecords ==
  /\ pc = "header"
  /\ header = NewHeader
  /\ lines = 0
  /\ filter = {}
  /\ isValid = TRUE
  /\ referenceTime = InvalidTime
  /\ timeSpan = NewTimeSpan
  /\ entities = [k \in {} |-> NewEntity(k)]
  /\ frames = <<>>
  /\ currentTimeStamp = 0
  /\ currentFrame = NewFrame(0, EmptyScene)
  /\ currentPushed = FALSE
  /\ destroyedIds = {}
  /\ filteredIds = {}
  /\ sampleRate = 1
  /\ timeStamp = 0
  /\ trajectories = [k \in {} |-> <<>>]
  /\ history = NewHistory
  /\ variant = "part_003"
  /\ input = [zipped |-> FALSE, entries |-> 1, extraction |-> "ok",
              content |-> <<>>]
  /\ controller = NoController
  /\ promise = Pending
  /\ step = "buffer"
  /\ refLong = 0
  /\ refLat = 0
  /\ geoid = <<>>
  /\ currentLine = <<>>
  /\ dispatched = <<>>
  /\ emulateOrientation = FALSE
  /\ previous = <<>>
  /\ seenReference = NoReference
  /\ lastRoll = 0
  /\ turn = NoTurn
  /\ calls = NoCalls
  /\ thisData = 1
  /\ running = 0

\* _parseHeader, as called by _parseBuffer; the content is parsed next
\* whatever the header step found
ParseHeader(res) ==
  LET found == [fileType |-> res.type, fileVersion |-> res.version]
  IN
  /\ pc = "header"
  /\ pc' = "parsing"
  /\ IF res.matched
     THEN /\ header' = found
          /\ isValid' = (IsValidType(found) /\ IsValidVersion(found))
     ELSE UNCHANGED << header, isValid >>
  /\ UNCHANGED << lines, filter, referenceTime, timeSpan, entities, frames,
                  currentTimeStamp, currentFrame, currentPushed, destroyedIds,
                  filteredIds, builderVars, history >>
  /\ UNCHANGED << asyncVars, extraVars >>

NextRecords ==
  \/ \E res \in HeaderMatches : ParseHeader(res)
  \/ \E row \in RecordGlobalRows : GlobalRow(row)
  \/ \E t \in RecordMarkers : TimeMarker(t)
  \/ \E id \in RecordIds : Removal(id)
  \/ \E id \in RecordIds, row \in RecordEntityRows : EntityUpsert(id, row)
  \/ RowWithoutComma
  \/ EndOfBuffer

SpecRecords == InitRecords /\ [][NextRecords]_vars

\* ---------------------------------------------- the promise of parse
\* parse before it is called, on a text or a container, with or without a
\* controller, in either version of the parser
InitParse ==
  /\ pc = "header"
  /\ header = NewHeader
  /\ lines = 0
  /\ filter = {}
  /\ isValid = TRUE
  /\ referenceTime = InvalidTime
  /\ timeSpan = NewTimeSpan
  /\ entities = [k \in {} |-> NewEntity(k)]
  /\ frames = <<>>
  /\ currentTimeStamp = 0
  /\ currentFrame = NewFrame(0, EmptyScene)
  /\ currentPushed = FALSE
  /\ destroyedIds = {}
  /\ filteredIds = {}
  /\ sampleRate = 1
  /\ timeStamp = 0
  /\ trajectories = [k \in {} |-> <<>>]
  /\ history = NewHistory
  /\ variant \in {"part_002", "part_003"}
  /\ input \in PlainInputs \cup ZippedInputs
  /\ controller \in {NoController, NewController}
  /\ promise = Pending
  /\ step = "idle"
  /\ refLong = 0
  /\ refLat = 0
  /\ geoid = <<>>
  /\ currentLine = <<>>
  /\ dispatched = <<>>
  /\ emulateOrientation = FALSE
  /\ previous = <<>>
  /\ seenReference = NoReference
  /\ lastRoll = 0
  /\ turn = NoTurn
  /\ calls = NoCalls
  /\ thisData = 1
  /\ running = 0

\* _parseBuffer throws: part_002 reads coords[1].length and
\* coords[2].length of a T field of at most five slots, a TypeError when
\* the field has fewer than three; part_003 maps whatever slots there are
ParseBufferThrows(v, content) ==
  /\ v = "part_002"
  /\ \E i \in 1 .. Len(content) : content[i] \in 1 .. 2

\* where the call stands after _parseBuffer ran on a text: part_003
\* returns the data from the async parse; part_002 leaves the rejection of
\* a throwing _parseBuffer unhandled, or has resolve waiting in a `then`
AfterParseBuffer(v, content) ==
  IF v = "part_003" THEN "done"
  ELSE IF ParseBufferThrows(v, content) THEN "thrown" ELSE "resolving"

\* the call of parse, up to its first suspension. part_002: the executor
\* adds the abort listener and, on a text, runs _parseBuffer at once.
\* part_003: `await this._unzip(data)` suspends on a text too.
Call ==
  /\ step = "idle"
  /\ controller' =
       IF variant = "part_002" /\ controller.present
       THEN [controller EXCEPT !.listening = TRUE] ELSE controller
  /\ step' = IF input.zipped THEN "unzip"
             ELSE IF variant = "part_003" THEN "buffer"
             ELSE AfterParseBuffer(variant, input.content)
  /\ UNCHANGED << variant, input, promise, textVars, extraVars >>

\* _unzip resumes: unzip or arrayBuffer failed, or the container has not
\* exactly one entry (the throw of _unzip), or the entry is the buffer.
\* part_003 awaits _unzip in parse, so the failure rejects the promise of
\* parse; part_002 chains `then` without a handler for the rejection.
UnzipSettles ==
  LET failed == input.extraction = "fails" \/ input.entries # 1
      reason == IF input.extraction = "fails" THEN "unzip error"
                ELSE "Invalid compressed ACMI file"
  IN
  /\ step = "unzip"
  /\ step' = IF ~failed THEN "buffer"
             ELSE IF variant = "part_003" THEN "done" ELSE "thrown"
  /\ promise' = IF failed /\ variant = "part_003" THEN Rejected(reason)
                ELSE promise
  /\ UNCHANGED << variant, input, controller, textVars, extraVars >>

\* _parseBuffer on the text, after a suspension
ParseBuffer ==
  /\ step = "buffer"
  /\ step' = AfterParseBuffer(variant, input.content)
  /\ promise' = IF variant = "part_003" THEN Resolved(input.content)
                ELSE promise
  /\ UNCHANGED << variant, input, controller, textVars, extraVars >>

\* part_002: the `then` callback calls resolve, which does nothing on a
\* promise that is already settled
Resolve ==
  /\ step = "resolving"
  /\ step' = "done"
  /\ promise' = IF promise.state = "pending" THEN Resolved(input.content)
                ELSE promise
  /\ UNCHANGED << variant, input, controller, textVars, extraVars >>

\* the caller calls controller.abort(): the abort event reaches the
\* listeners registered so far; part_002's listener is reject
Abort ==
  /\ controller.present
  /\ ~controller.aborted
  /\ controller' = [controller EXCEPT !.aborted = TRUE, !.abortedAt = step]
  /\ promise' = IF controller.listening /\ promise.state = "pending"
                THEN Rejected("abort") ELSE promise
  /\ UNCHANGED << variant, input, step, textVars, extraVars >>

NextParse == Call \/ UnzipSettles \/ ParseBuffer \/ Resolve \/ Abort

SpecParse == InitParse /\ [][NextParse]_vars

\* ======================================================== properties
Returned == pc # "parsing"
\* the tick of a sample
SampleTime(sample) == sample.time.ms
\* ids of the scenes of the pushed frames and of the current frame
SceneIds ==
  (DOMAIN currentFrame.scene)
    \cup UNION {DOMAIN frames[k].scene : k \in 1 .. Len(frames)}
Intersects(types, F) == \E i \in 1 .. Len(types) : types[i] \in F

\* C1 (as claimed): a `-id` record sets the end of the entity's time span
\* to referenceTime + current timestamp, and at the next time marker with
\* another value the frame pushed for the current timestamp still has id in
\* its scene while the new current frame does not.
C1_RemovalOrdering ==
  /\ [][\A id \in Ids :
          (Removal(id) /\ id \in DOMAIN entities)
            => entities'[id].timeSpan.end
                 = AddSeconds(referenceTime, currentTimeStamp)]_vars
  /\ [][\A t \in TimeStamps :
          (TimeMarker(t) /\ t # currentTimeStamp)
            => \A id \in destroyedIds \cap DOMAIN currentFrame.scene :
                 /\ frames'[Len(frames')].timeStamp = currentTimeStamp
                 /\ id \in DOMAIN frames'[Len(frames')].scene
                 /\ currentFrame'.timeStamp = t
                 /\ id \notin DOMAIN currentFrame'.scene]_vars

\* C2 (as claimed): an id whose first row carries a Type that intersects
\* the filter is never stored in entities nor put in any scene.
C2_FilterPersistence ==
  \A id \in DOMAIN history.firstTypes :
    Intersects(history.firstTypes[id], filter)
      => id \notin DOMAIN entities /\ id \notin SceneIds

\* C3 (as claimed): in the returned data no stored entity, and so no id of
\* any scene, has a types list that shares an element with the filter.
C3_FilterLaw ==
  Returned =>
    /\ \A id \in DOMAIN entities : ~Intersects(entities[id].types, filter)
    /\ \A id \in SceneIds :
         id \in DOMAIN entities => ~Intersects(entities[id].types, filter)

\* C4 (as claimed): in every trajectory the sample times are strictly
\* increasing, the tail sample included.
C4_StrictlyIncreasing ==
  \A id \in DOMAIN trajectories :
    \A i \in 1 .. Len(trajectories[id]) - 1 :
      SampleTime(trajectories[id][i]) < SampleTime(trajectories[id][i + 1])

\* C5 (as claimed): the tail step appends samples only when the last step
\* of the loop did not sample at exactly timeSpan.end.
C5_TailOnlyAfterOvershoot ==
  [][(TailStep /\ timeStamp - sampleRate = TimeSpanDuration(timeSpan))
       => trajectories' = trajectories]_vars

\* C6 (as claimed): every pair of consecutive samples other than the last
\* pair of a trajectory is at most sampleRate apart.
C6_GapAtMostRate ==
  \A id \in DOMAIN trajectories :
    \A i \in 1 .. Len(trajectories[id]) - 2 :
      SampleTime(trajectories[id][i + 1]) - SampleTime(trajectories[id][i])
        <= sampleRate

\* the state vector of id in the frame sampled at tick ms is absent or
\* equal, in position and orientation, to the state vector sv
AbsentOrSame(id, ms, sv) ==
  LET frame == GetFrame(Instant(ms))
  IN \/ frame = 0
     \/ id \notin DOMAIN frames[frame].scene
     \/ /\ FromTransform(frames[frame].scene[id]).cartesian = sv.cartesian
        /\ FromTransform(frames[frame].scene[id]).quaternion = sv.quaternion

\* C6 (amended): two consecutive samples of which the later one is not the
\* tail sample are a positive whole number of sampling steps apart, and at
\* every sampling step between them the entity was absent from the sampled
\* frame or had the state of the earlier sample.
C6_GapOnlyOverSkippedSteps ==
  \A id \in DOMAIN trajectories :
    \A i \in 1 .. Len(trajectories[id]) - 1 :
      LET a == trajectories[id][i]
          b == trajectories[id][i + 1]
          gap == SampleTime(b) - SampleTime(a)
      IN ~b.lastFrame =>
           /\ gap > 0
           /\ gap % sampleRate = 0
           /\ \A n \in 1 .. (gap \div sampleRate) - 1 :
                AbsentOrSame(id, SampleTime(a) + n * sampleRate,
                             a.stateVector)

\* C6 witness: a finished trajectory of three samples whose first two
\* samples are more than sampleRate apart
C6_Witness ==
  /\ pc = "done"
  /\ \E id \in DOMAIN trajectories :
       /\ Len(trajectories[id]) >= 3
       /\ ~trajectories[id][2].lastFrame
       /\ SampleTime(trajectories[id][2]) - SampleTime(trajectories[id][1])
            > sampleRate

C8_FramesStrictlyIncreasing ==
  (Returned /\ isValid) =>
    \A k \in 1 .. Len(frames) - 1 :
      frames[k].timeStamp < frames[k + 1].timeStamp

\* C9 (as claimed): in the returned data every id of a frame's scene that
\* no removal record named while that frame was current is in the next
\* frame's scene, with the same transform unless a row with a T field for
\* it was read while the next frame was current.
C9_SceneInheritance ==
  Returned =>
    \A k \in 1 .. Len(frames) - 1 :
      \A id \in DOMAIN frames[k].scene :
        id \notin history.removed[k] =>
          /\ id \in DOMAIN frames[k + 1].scene
          /\ id \notin history.updated[k + 1]
               => frames[k + 1].scene[id] = frames[k].scene[id]

\* C10 (as claimed): a file whose time markers all have the same value t
\* returns exactly one frame with timeStamp t.
C10_OneFramePerMarkerRun ==
  (Returned /\ history.markers # <<>>
     /\ \A i \in 1 .. Len(history.markers) :
          history.markers[i] = history.markers[1]) =>
    Cardinality({k \in 1 .. Len(frames) :
                   frames[k].timeStamp = history.markers[1]}) = 1

\* ---------------------------------------- the parts that hold of the code
\* Part of C1 that holds: a `-id` record sets the end of a stored entity's
\* time span to referenceTime + current timestamp, and after the next
\* marker with another value the id is not in the new current frame.
RemovalSetsEndAndClears ==
  /\ [][\A id \in Ids :
          (Removal(id) /\ id \in DOMAIN entities)
            => entities'[id].timeSpan.end
                 = AddSeconds(referenceTime, currentTimeStamp)]_vars
  /\ [][\A t \in TimeStamps :
          (TimeMarker(t) /\ t # currentTimeStamp)
            => \A id \in destroyedIds :
                 /\ frames'[Len(frames')].timeStamp = currentTimeStamp
                 /\ currentFrame'.timeStamp = t
                 /\ id \notin DOMAIN currentFrame'.scene]_vars

\* Part of C9 that holds: an id that is in two consecutive frames and was
\* not named by a removal record has the same transform in both unless a
\* row with a T field for it was read while the later frame was current.
InheritedTransformKept ==
  Returned =>
    \A k \in 1 .. Len(frames) - 1 :
      \A id \in (DOMAIN frames[k].scene) \cap (DOMAIN frames[k + 1].scene) :
        (id \notin history.removed[k] /\ id \notin history.updated[k + 1])
          => frames[k + 1].scene[id] = frames[k].scene[id]

\* Part of C10 that holds: a marker equal to the current timestamp appends
\* no frame and keeps the current frame, less the ids pending destruction;
\* and a non-empty returned frame list of a file whose markers all have the
\* value t has exactly one frame with timeStamp t.
EqualMarkerKeepsFrame ==
  /\ [][\A t \in TimeStamps :
          (TimeMarker(t) /\ t = currentTimeStamp)
            => /\ frames' = frames
               /\ currentTimeStamp' = currentTimeStamp
               /\ currentFrame' =
                    NewFrame(currentFrame.timeStamp,
                             SceneDelete(currentFrame.scene, destroyedIds))]_vars
  /\ []((Returned /\ Len(frames) > 0 /\ history.markers # <<>>
          /\ \A i \in 1 .. Len(history.markers) :
               history.markers[i] = history.markers[1])
         => Cardinality({k \in 1 .. Len(frames) :
                           frames[k].timeStamp = history.markers[1]}) = 1)

\* ------------------------------------------------ time spans on return
\* the file's markers, in file order, are strictly increasing
MarkersIncrease ==
  \A i \in 1 .. Len(history.markers) - 1 :
    history.markers[i] < history.markers[i + 1]

\* C11 (as claimed): on return, data whose reference time is absent or
\* invalid, or none of whose frames has a non-empty scene, has isValid
\* false; also when the file has no time marker or only `#0` markers.
C11_InvalidTimeSpanClearsIsValid ==
  Returned =>
    ((~referenceTime.valid \/ FirstNonEmptyFrameIndex(frames) = 0)
       => ~isValid)

\* C12 (as claimed): after parsing a file that has a ReferenceTime row,
\* every stored entity has a time span whose start and end are both valid,
\* wherever the row stands and whether or not a frame was pushed.
C12_EntityTimeSpanValid ==
  (Returned /\ referenceTime.valid) =>
    \A id \in DOMAIN entities : TimeSpanIsValid(entities[id].timeSpan)

\* C13 (as claimed): on return every entity's time span is ordered and
\* lies within the time span of the data. Stated for the files whose
\* markers increase and for the spans that are valid.
C13_EntityTimeSpanWithinData ==
  (Returned /\ MarkersIncrease /\ TimeSpanIsValid(timeSpan)) =>
    \A id \in DOMAIN entities :
      TimeSpanIsValid(entities[id].timeSpan) =>
        /\ IsSameOrBefore(entities[id].timeSpan.start,
                          entities[id].timeSpan.end)
        /\ IsSameOrBefore(timeSpan.start, entities[id].timeSpan.start)
        /\ IsSameOrBefore(entities[id].timeSpan.end, timeSpan.end)

\* ------------------------------------ header step and malformed records
\* the header holds the accepted type and an accepted version
HeaderAccepted == IsValidType(header) /\ IsValidVersion(header)

\* C14 (as claimed): after the header step, and so in the returned data,
\* isValid is true only when the first two lines are a header whose type
\* and version are both accepted; a missing header, a wrong type and an
\* unsupported version each leave isValid false.
C14_HeaderValidation ==
  (pc # "header" /\ isValid) => HeaderAccepted

\* C15 (as claimed): when the header is missing, of a wrong type or of an
\* unsupported version, the content is not parsed: the returned data has no
\* frame, no entity and no global property from the lines after the header.
C15_HeaderErrorIsFatal ==
  (Returned /\ ~HeaderAccepted) =>
    /\ frames = <<>>
    /\ DOMAIN entities = {}
    /\ ~referenceTime.valid

\* one of the slots of a T field is a token that is no number
HasNaN(t) == t # NoT /\ \E i \in 1 .. Len(t) : t[i] = <<NaN>>
\* _parseLine on a line with a fragment without `=`
MalformedFragmentStep ==
  \/ \E row \in RecordGlobalRows : row.malformed /\ GlobalRow(row)
  \/ \E id \in RecordIds, row \in RecordEntityRows :
       row.malformed /\ EntityUpsert(id, row)
\* _parseLine on a line with a numeric token that is no number
NumericTokenStep ==
  \/ TimeMarker(NaN)
  \/ \E id \in RecordIds, row \in RecordEntityRows :
       HasNaN(row.t) /\ EntityUpsert(id, row)

\* C16 (as claimed): a line with a fragment without `=`, an entity row
\* without a comma, and a line with a numeric token that is no number each
\* set isValid to false, and the parser goes on reading.
C16_MalformedRecordClearsIsValid ==
  [][(MalformedFragmentStep \/ RowWithoutComma \/ NumericTokenStep)
       => (~isValid' /\ pc' = "parsing")]_vars

\* C17 (as claimed): a line with a fragment without `=` is skipped as a
\* whole: apart from isValid the parsing state after the line is the state
\* before it, also when the line has well-formed fields.
C17_MalformedLineSkipped ==
  [][MalformedFragmentStep
       => UNCHANGED << header, referenceTime, timeSpan, entities, frames,
                       currentTimeStamp, currentFrame, destroyedIds,
                       filteredIds >>]_vars

\* Part of C16 that holds: a fragment without `=` and an entity row without
\* a comma set isValid to false, and the parser goes on reading.
FragmentAndCommaErrorsClearIsValid ==
  [][(MalformedFragmentStep \/ RowWithoutComma)
       => (~isValid' /\ pc' = "parsing")]_vars

\* ---------------------------------------------- the promise of parse
\* no step of the call of parse is left to run
Quiescent == step \in {"thrown", "done"}

\* C18 (as claimed): on an input that is no container and with no abort,
\* parse never rejects, and once no step of the call is left its promise
\* is resolved with the data: it does not stay pending, whatever records
\* the text holds.
C18_TextNeverFails ==
  (~input.zipped /\ ~controller.aborted) =>
    /\ promise.state # "rejected"
    /\ Quiescent => promise.state = "resolved"

\* C19 (as claimed): on a container with no entry, with more than one
\* entry or whose extraction fails, and with no abort, parse never
\* resolves, and once no step of the call is left its promise is rejected;
\* on a container with exactly one entry it settles as parse of the
\* entry's text does.
C19_CorruptContainerRejects ==
  (input.zipped /\ ~controller.aborted) =>
    IF input.extraction = "fails" \/ input.entries # 1
    THEN /\ promise.state # "resolved"
         /\ Quiescent => promise.state = "rejected"
    ELSE Quiescent =>
           promise = IF ParseBufferThrows(variant, input.content)
                     THEN Pending ELSE Resolved(input.content)

\* C20 (as claimed): when the controller is aborted before parse has
\* completed, also before parse is called or while the extraction is
\* suspended, the promise is rejected by the abort and by nothing else,
\* and is not resolved with the data.
C20_AbortCancels ==
  (controller.aborted
     /\ controller.abortedAt \in {"idle", "unzip", "buffer", "resolving"})
    => /\ promise.state # "resolved"
       /\ Quiescent => promise = Rejected("abort")

\* Part of C18 and C19 that holds: the async parse of part_003 settles as
\* claimed on every text and on every container.
AsyncParseSettles ==
  (variant = "part_003" /\ Quiescent) =>
    promise = IF input.zipped
                   /\ (input.extraction = "fails" \/ input.entries # 1)
              THEN IF input.extraction = "fails"
                   THEN Rejected("unzip error")
                   ELSE Rejected("Invalid compressed ACMI file")
              ELSE Resolved(input.content)

\* Part of C20 that holds: in part_002 an abort after the call of parse
\* and before resolve rejects the promise.
AbortListenerRejects ==
  (variant = "part_002" /\ controller.aborted
     /\ controller.abortedAt \in {"unzip", "buffer", "resolving"})
    => promise = Rejected("abort")

\* ------------------------------------------- final frame and getFrame
\* C27 (as claimed): when parse completes, the current frame is the last
\* element of frames and timeSpan.start/end are computed from the frames,
\* for every input, also one with no marker or with `#0` as only marker.
C27_FinalFramePushed ==
  Returned =>
    /\ Len(frames) >= 1
    /\ frames[Len(frames)] = currentFrame
    /\ (referenceTime.valid /\ DOMAIN currentFrame.scene # {}) =>
         /\ FirstNonEmptyFrameIndex(frames) # 0
         /\ timeSpan.start =
              AddSeconds(referenceTime,
                frames[FirstNonEmptyFrameIndex(frames)].timeStamp)
         /\ timeSpan.end =
              AddSeconds(referenceTime, frames[Len(frames)].timeStamp)

\* the frames are sorted by timeStamp
FramesSorted ==
  \A i \in 1 .. Len(frames) : \A j \in i .. Len(frames) :
    frames[i].timeStamp <= frames[j].timeStamp
\* the times getFrame is probed with: an invalid instant, and the instants
\* from one tick before the reference time to one tick after the largest
\* marker
ProbeTimes ==
  {InvalidTime}
    \cup {Instant(r + d) : r \in RefTimes, d \in (0 - 1) .. (MaxTime + 1)}

\* C28: on returned data with a valid timeSpan and sorted frames, getFrame
\* returns for every time in [referenceTime, timeSpan.end] a frame whose
\* timeStamp is <= time - referenceTime and is the largest such timeStamp;
\* it returns undefined for a time outside the interval; and on data with
\* an invalid timeSpan it returns undefined for every time.
C28_GetFrameLaw ==
  Returned =>
    \A time \in ProbeTimes :
      LET k == GetFrame(time)
          d == time.ms - referenceTime.ms
      IN IF ~TimeSpanIsValid(timeSpan) THEN k = 0
         ELSE FramesSorted =>
                IF time.valid /\ referenceTime.ms <= time.ms
                   /\ time.ms <= timeSpan.end.ms
                THEN /\ k \in 1 .. Len(frames)
                     /\ frames[k].timeStamp <= d
                     /\ \A j \in 1 .. Len(frames) :
                          frames[j].timeStamp <= d
                            => frames[j].timeStamp <= frames[k].timeStamp
                ELSE k = 0

\* C28 witness: returned data with three sorted frames and a valid
\* timeSpan that starts after the reference time, where getFrame returns
\* the middle frame for a time between two markers' instants
C28_Witness ==
  /\ pc = "parsed"
  /\ TimeSpanIsValid(timeSpan)
  /\ FramesSorted
  /\ Len(frames) = 3
  /\ timeSpan.start.ms > referenceTime.ms
  /\ GetFrame(Instant(referenceTime.ms + 1)) = 2
  /\ GetFrame(Instant(timeSpan.end.ms + 1)) = 0

\* ----------------------------------- trajectories of a degraded parse
\* the header step, any rows, then createSampledTrajectories on the data
\* parse returned
NextDegraded == NextRecords \/ BuildNext

SpecDegraded == InitRecords /\ [][NextDegraded]_vars

InvalidTimeSpanYieldsNoTrajectories ==
  (pc = "done" /\ ~TimeSpanIsValid(timeSpan)) => DOMAIN trajectories = {}

\* ------------------------------------- createSampledTrajectories again
\* a parse without filter, then createSampledTrajectories with or without
\* options.emulateOrientation
InitRebuild ==
  /\ pc = "parsing"
  /\ header = [fileType |-> AcmiType, fileVersion |-> "2.2"]
  /\ lines = 0
  /\ filter = {}
  /\ isValid = TRUE
  /\ referenceTime = InvalidTime
  /\ timeSpan = NewTimeSpan
  /\ entities = [k \in {} |-> NewEntity(k)]
  /\ frames = <<>>
  /\ currentTimeStamp = 0
  /\ currentFrame = NewFrame(0, EmptyScene)
  /\ currentPushed = FALSE
  /\ destroyedIds = {}
  /\ filteredIds = {}
  /\ sampleRate = 1
  /\ timeStamp = 0
  /\ trajectories = [k \in {} |-> <<>>]
  /\ history = NewHistory
  /\ variant = "part_003"
  /\ input = [zipped |-> FALSE, entries |-> 1, extraction |-> "ok",
              content |-> <<>>]
  /\ controller = NoController
  /\ promise = Pending
  /\ step = "buffer"
  /\ refLong = 0
  /\ refLat = 0
  /\ geoid = <<>>
  /\ currentLine = <<>>
  /\ dispatched = <<>>
  /\ emulateOrientation \in BOOLEAN
  /\ previous = <<>>
  /\ seenReference = NoReference
  /\ lastRoll = 0
  /\ turn = NoTurn
  /\ calls = NoCalls
  /\ thisData = 1
  /\ running = 0

\* a second call that goes on filling the mapping of the first call
CallAgainOnSameMap ==
  /\ pc = "done"
  /\ previous = <<>>
  /\ previous' = << trajectories >>
  /\ timeStamp' = 0
  /\ trajectories' = IF TimeSpanIsValid(timeSpan) THEN trajectories
                     ELSE [k \in {} |-> <<>>]
  /\ pc' = IF TimeSpanIsValid(timeSpan) THEN "sampling" ELSE "done"
  /\ UNCHANGED << header, lines, parserVars, sampleRate, history >>
  /\ UNCHANGED << asyncVars, staticVars, scanVars, emulateOrientation,
                  seenReference, rollVars, overlapVars >>

\* createSampledTrajectories called a second time on the same data with the
\* same options; previous keeps what the first call returned
CallAgain ==
  /\ pc = "done"
  /\ previous = <<>>
  /\ previous' = << trajectories >>
  /\ timeStamp' = 0
  /\ trajectories' = [k \in {} |-> <<>>]
  /\ pc' = IF TimeSpanIsValid(timeSpan) THEN "sampling" ELSE "done"
  /\ UNCHANGED << header, lines, parserVars, sampleRate, history >>
  /\ UNCHANGED << asyncVars, staticVars, scanVars, emulateOrientation,
                  seenReference, rollVars, overlapVars >>

NextRebuild == ParseNext \/ BuildNext \/ CallAgain

SpecRebuild == InitRebuild /\ [][NextRebuild]_vars

SourceQuaternion(id, k) ==
  LET time == trajectories[id][k].time
  IN FromTransform(frames[GetFrame(time)].scene[id]).quaternion

EmulationLeavesNoSampleBare ==
  (pc = "done" /\ emulateOrientation) =>
    \A id \in DOMAIN trajectories :
      \A k \in 1 .. Len(trajectories[id]) :
        trajectories[id][k].stateVector.quaternion # <<>>

\* ------------------------------ the orientation synthesizer on its own
\* most samples of a trajectory
MaxSamples == 4
\* ECEF positions of the samples
Positions == { <<0, 0, 0>>, <<1, 0, 0>>, <<1, 1, 0>> }
\* the id of the trajectory
SynthId == CHOOSE id \in RecordIds : TRUE
\* trajectories of 1 .. MaxSamples samples without orientation, one second
\* apart, as _addFrame builds them from rows that give positions only
PositionOnlySamples ==
  UNION { { [k \in 1 .. n |->
               [time |-> Instant(100 + k),
                stateVector |-> [cartesian |-> ps[k], quaternion |-> <<>>],
                lastFrame |-> FALSE]] : ps \in [1 .. n -> Positions] }
          : n \in 1 .. MaxSamples }

InitSynth ==
  /\ pc = "emulate"
  /\ header = [fileType |-> AcmiType, fileVersion |-> "2.2"]
  /\ lines = 0
  /\ filter = {}
  /\ isValid = TRUE
  /\ referenceTime = InvalidTime
  /\ timeSpan = NewTimeSpan
  /\ entities = [k \in {} |-> NewEntity(k)]
  /\ frames = <<>>
  /\ currentTimeStamp = 0
  /\ currentFrame = NewFrame(0, EmptyScene)
  /\ currentPushed = FALSE
  /\ destroyedIds = {}
  /\ filteredIds = {}
  /\ sampleRate = 1
  /\ timeStamp = 0
  /\ \E samples \in PositionOnlySamples :
       trajectories = [k \in {SynthId} |-> samples]
  /\ history = NewHistory
  /\ variant = "part_003"
  /\ input = [zipped |-> FALSE, entries |-> 1, extraction |-> "ok",
              content |-> <<>>]
  /\ controller = NoController
  /\ promise = Pending
  /\ step = "done"
  /\ refLong = 0
  /\ refLat = 0
  /\ geoid = <<>>
  /\ currentLine = <<>>
  /\ dispatched = <<>>
  /\ emulateOrientation = TRUE
  /\ previous = <<>>
  /\ seenReference = NoReference
  /\ lastRoll = 0
  /\ turn = NoTurn
  /\ calls = NoCalls
  /\ thisData = 1
  /\ running = 0

\* trajectory.emulateOrientations(true); previous keeps the samples as they
\* were before the call
EmulateTrajectory ==
  /\ pc = "emulate"
  /\ previous' = << trajectories >>
  /\ trajectories' = Emulated(trajectories)
  /\ pc' = "emulated"
  /\ UNCHANGED << header, lines, parserVars, sampleRate, timeStamp, history >>
  /\ UNCHANGED << asyncVars, staticVars, scanVars, emulateOrientation,
                  seenReference, rollVars, overlapVars >>

NextSynth == EmulateTrajectory

SpecSynth == InitSynth /\ [][NextSynth]_vars

\* q is an orientation computed from the three samples: the default
\* quaternion at s0 when s0 and s1 are at the same place, else a quaternion
\* at s0 whose arguments begin with the positions and times of s0, s1, s2
FromTriple(q, s0, s1, s2) ==
  LET p0 == s0.stateVector.cartesian
      p1 == s1.stateVector.cartesian
      p2 == s2.stateVector.cartesian
      args == p0 \o p1 \o p0 \o p1 \o p2
                \o << DiffSeconds(s1.time, s0.time),
                      DiffSeconds(s2.time, s1.time) >>
  IN IF p0 = p1
     THEN q = DefaultQuaternion(p0)
     ELSE /\ Len(q) = 2
          /\ q[1] = p0
          /\ Len(q[2]) >= Len(args)
          /\ SubSeq(q[2], 1, Len(args)) = args

\* C30: after emulateOrientations on a trajectory of N samples every sample
\* has an orientation and nothing else of it changed; with N < 3 it is the
\* default quaternion at the sample's position; with N >= 3 each of the
\* first N - 2 samples has the orientation computed from itself and the two
\* samples after it, and the last two samples have the orientation of the
\* sample before them; the trajectory still has N samples.
C30_EveryOrientationSet ==
  pc = "emulated" =>
    LET before == previous[1][SynthId]
        after == trajectories[SynthId]
        N == Len(before)
        q(k) == after[k].stateVector.quaternion
    IN /\ DOMAIN trajectories = {SynthId}
       /\ Len(after) = N
       /\ \A k \in 1 .. N :
            /\ q(k) # <<>>
            /\ after[k] = SetQuaternion(before[k], q(k))
       /\ N < 3 =>
            \A k \in 1 .. N :
              q(k) = DefaultQuaternion(before[k].stateVector.cartesian)
       /\ N >= 3 =>
            /\ \A k \in 1 .. N - 2 :
                 FromTriple(q(k), before[k], before[k + 1], before[k + 2])
            /\ q(N - 1) = q(N - 2)
            /\ q(N) = q(N - 2)

\* four samples emulated, the first two with different orientations that
\* are not the default one
C30_Witness ==
  /\ pc = "emulated"
  /\ Len(trajectories[SynthId]) = 4
  /\ LET q(k) == trajectories[SynthId][k].stateVector.quaternion
         p(k) == trajectories[SynthId][k].stateVector.cartesian
     IN /\ q(1) # q(2)
        /\ q(1) # DefaultQuaternion(p(1))
        /\ q(2) # DefaultQuaternion(p(2))
        /\ q(4) = q(2)

\* ------------------------------- the statics of Transform, many parses
\* global rows of the files: ReferenceTime, ReferenceLongitude or
\* ReferenceLatitude
StaticsGlobalRows ==
  [referenceTime : {<<100>>}, malformed : {FALSE},
   referenceLongitude : {<<>>}, referenceLatitude : {<<>>}]
    \cup [referenceTime : {<<>>}, malformed : {FALSE},
          referenceLongitude : {<<5>>}, referenceLatitude : {<<>>}]
    \cup [referenceTime : {<<>>}, malformed : {FALSE},
          referenceLongitude : {<<>>}, referenceLatitude : {<<3>>}]
\* entity rows with a T field: all of longitude, latitude and altitude, or
\* the latitude alone
StaticsEntityRows ==
  [types : {NoTypes},
   t : { << <<1>>, <<2>>, <<1>> >>, << <<>>, <<2>>, <<>> >> },
   destroyed : {FALSE},
   malformed : {FALSE}]
\* the geoidPgm argument of the constructor: <<>> when undefined
GeoidPgms == { <<>>, <<7>> }

\* a parser just constructed without geoid in a new process, parse called
\* without filter on a text whose header is valid
InitStatics ==
  /\ pc = "parsing"
  /\ header = [fileType |-> AcmiType, fileVersion |-> "2.2"]
  /\ lines = 0
  /\ filter = {}
  /\ isValid = TRUE
  /\ referenceTime = InvalidTime
  /\ timeSpan = NewTimeSpan
  /\ entities = [k \in {} |-> NewEntity(k)]
  /\ frames = <<>>
  /\ currentTimeStamp = 0
  /\ currentFrame = NewFrame(0, EmptyScene)
  /\ currentPushed = FALSE
  /\ destroyedIds = {}
  /\ filteredIds = {}
  /\ sampleRate = 1
  /\ timeStamp = 0
  /\ trajectories = [k \in {} |-> <<>>]
  /\ history = NewHistory
  /\ variant = "part_003"
  /\ input = [zipped |-> FALSE, entries |-> 1, extraction |-> "ok",
              content |-> <<>>]
  /\ controller = NoController
  /\ promise = Pending
  /\ step = "buffer"
  /\ refLong = 0
  /\ refLat = 0
  /\ geoid = <<>>
  /\ currentLine = <<>>
  /\ dispatched = <<>>
  /\ emulateOrientation = FALSE
  /\ previous = <<>>
  /\ seenReference = NoReference
  /\ lastRoll = 0
  /\ turn = NoTurn
  /\ calls = NoCalls
  /\ thisData = 1
  /\ running = 0

\* AcmiParser.parse called again on the same parser, on another text with
\* a valid header: new AcmiData, and the reset of _filter, _currentLine,
\* _currentTimeStamp, _currentFrame, _destroyedIds and _filteredIds
ParseAgain ==
  /\ pc = "parsed"
  /\ pc' = "parsing"
  /\ header' = [fileType |-> AcmiType, fileVersion |-> "2.2"]
  /\ lines' = 0
  /\ filter' = {}
  /\ isValid' = TRUE
  /\ referenceTime' = InvalidTime
  /\ timeSpan' = NewTimeSpan
  /\ entities' = [k \in {} |-> NewEntity(k)]
  /\ frames' = <<>>
  /\ currentTimeStamp' = 0
  /\ currentFrame' = NewFrame(0, EmptyScene)
  /\ currentPushed' = FALSE
  /\ destroyedIds' = {}
  /\ filteredIds' = {}
  /\ history' = NewHistory
  /\ promise' = Pending
  /\ step' = "buffer"
  /\ currentLine' = <<>>
  /\ seenReference' = NoReference
  /\ UNCHANGED << builderVars, variant, input, controller, staticVars,
                  dispatched, rebuildVars, rollVars, overlapVars >>

\* between two parses, or before _parseBuffer starts
BetweenBuffers == pc = "parsed" \/ (pc = "parsing" /\ lines = 0)

\* new AcmiParser(geoidPgm), for another parser of the same process
OtherConstructor(geoidPgm) ==
  /\ BetweenBuffers
  /\ geoid' = IF geoidPgm # <<>> THEN geoidPgm ELSE geoid
  /\ UNCHANGED << textVars, asyncVars, refLong, refLat, scanVars,
                  rebuildVars, seenReference, rollVars, overlapVars >>

\* another parser of the same process reads a global row of its own file
OtherGlobalRow(row) ==
  /\ BetweenBuffers
  /\ refLong' = IF row.referenceLongitude # <<>>
                THEN row.referenceLongitude[1] ELSE refLong
  /\ refLat' = IF row.referenceLatitude # <<>>
               THEN row.referenceLatitude[1] ELSE refLat
  /\ UNCHANGED << textVars, asyncVars, geoid, scanVars, rebuildVars,
                  seenReference, rollVars, overlapVars >>

\* the rows of one file
NextFile ==
  \/ \E row \in StaticsGlobalRows : GlobalRow(row)
  \/ \E t \in {1} : TimeMarker(t)
  \/ \E id \in RecordIds, row \in StaticsEntityRows : EntityUpsert(id, row)
  \/ EndOfBuffer

NextStatics ==
  \/ NextFile
  \/ ParseAgain
  \/ \E geoidPgm \in GeoidPgms : OtherConstructor(geoidPgm)
  \/ \E row \in StaticsGlobalRows : OtherGlobalRow(row)

SpecStatics == InitStatics /\ [][NextStatics]_vars

\* the first file of the only parser of a new process
SpecFirstFile == InitStatics /\ [][NextFile]_vars

\* the only parser of a new process, used for one file after the other
NextReuse == NextFile \/ ParseAgain

SpecReuse == InitStatics /\ [][NextReuse]_vars

\* the parsing state of a new parser at the start of parse
FreshParsingState ==
  /\ pc = "parsing"
  /\ lines = 0
  /\ isValid
  /\ referenceTime = InvalidTime
  /\ timeSpan = NewTimeSpan
  /\ DOMAIN entities = {}
  /\ frames = <<>>
  /\ currentTimeStamp = 0
  /\ currentFrame = NewFrame(0, EmptyScene)
  /\ currentPushed = FALSE
  /\ destroyedIds = {}
  /\ filteredIds = {}
  /\ currentLine = <<>>
  /\ refLong = 0
  /\ refLat = 0

\* C21: parse resets all the mutable parsing state: a parse on a parser
\* that was used before starts from the state of a new parser, and the
\* reference longitude and latitude used to decode `T=` start at 0.
C21_ParseResetsState == [][ParseAgain => FreshParsingState']_vars

\* the part of C21 the code keeps: all of the parsing state but the
\* references is reset
ParseResetsAllButReferences ==
  [][ParseAgain => (refLong' = 0 /\ refLat' = 0 => FreshParsingState')]_vars

\* C22: parsers share no mutable state: the reference longitude and
\* latitude and the geoid one parser uses are changed neither by the
\* construction of another parser nor by another parser reading its file.
C22_NoSharedState ==
  [][((\E geoidPgm \in GeoidPgms : OtherConstructor(geoidPgm))
       \/ (\E row \in StaticsGlobalRows : OtherGlobalRow(row)))
      => (UNCHANGED staticVars)]_vars

\* the row was read and its transform is the entity's in the current frame
DecodedWith(id, row, long, lat) ==
  LET x == Slot(row.t, 1)
      y == Slot(row.t, 2)
      position == currentFrame'.scene[id].position
  IN /\ SceneHas(currentFrame'.scene, id)
     /\ x # <<>> => position[1] = long + x[1]
     /\ y # <<>> => position[2] = lat + y[1]
     /\ frames' = frames
     /\ \A k \in DOMAIN currentFrame.scene :
          k # id => currentFrame'.scene[k] = currentFrame.scene[k]

\* C25: a longitude x and a latitude y of a `T=` field are stored as L + x
\* and M + y, L and M the values of the last ReferenceLongitude and
\* ReferenceLatitude rows read before that row in the same file, 0 if
\* none; a reference row changes no transform already stored.
C25_ReferenceDecoding ==
  /\ [][\A id \in RecordIds, row \in StaticsEntityRows :
          EntityUpsert(id, row)
            => DecodedWith(id, row, seenReference.longitude,
                           seenReference.latitude)]_vars
  /\ [][(\E row \in StaticsGlobalRows : GlobalRow(row))
          => (UNCHANGED << frames, currentFrame >>)]_vars

\* ------------------------------------------------------- line scanner
\* most physical lines of the content
MaxPhysicalLines == 3
\* the physical lines of the content after the two header lines, each
\* ended by a line feed, as sequences of characters: empty, blank, records
\* with and without a backslash at their end, a backslash alone, comments
\* with and without a backslash at their end
PhysicalLines ==
  { <<>>, <<" ">>, <<"a">>, <<"b">>, <<"a", "\\">>, <<"\\">>,
    <<" ", "\\">>, <<"/", "/">>, <<"/", "/", "\\">> }
\* line.trim().length === 0
IsBlank(line) == \A i \in 1 .. Len(line) : line[i] \in {" ", "\r"}
\* line.startsWith("//")
StartsWithSlashes(line) ==
  Len(line) >= 2 /\ line[1] = "/" /\ line[2] = "/"
\* line.endsWith("\\")
EndsWithBackslash(line) == Len(line) >= 1 /\ line[Len(line)] = "\\"
\* line.slice(0, line.length - 1) + "\n"
BackslashToNewline(line) == SubSeq(line, 1, Len(line) - 1) \o <<"\n">>

\* _parseContent at a line feed, after the two header lines: the physical
\* line is skipped, or added to the line buffer, or added and passed to
\* _parseLine, which empties the buffer at its end; lines counts the
\* physical lines here, and what _parseLine decodes is left out
ScanLine(line) ==
  /\ pc = "parsing"
  /\ lines < MaxPhysicalLines
  /\ lines' = lines + 1
  /\ IF ~IsBlank(line) /\ ~StartsWithSlashes(line)
     THEN IF EndsWithBackslash(line)
          THEN /\ currentLine' = currentLine \o BackslashToNewline(line)
               /\ dispatched' = dispatched
          ELSE /\ currentLine' = <<>>
               /\ dispatched' = Append(dispatched, currentLine \o line)
     ELSE UNCHANGED scanVars
  /\ UNCHANGED << pc, header, parserVars, builderVars, history >>
  /\ UNCHANGED << asyncVars, staticVars, rebuildVars, seenReference,
                  rollVars, overlapVars >>

NextScan ==
  \/ \E line \in PhysicalLines : ScanLine(line)
  \/ EndOfBuffer

SpecScan == InitStatics /\ [][NextScan]_vars

\* the line read ends a chain or goes on with it, as C26 says
Joined(line) ==
  IF EndsWithBackslash(line)
  THEN /\ currentLine' = currentLine \o BackslashToNewline(line)
       /\ dispatched' = dispatched
  ELSE /\ currentLine' = <<>>
       /\ dispatched' = Append(dispatched, currentLine \o line)

\* C26: a physical line that ends with a backslash is joined with the next
\* physical line, the backslash replaced by a newline, for chains of any
\* length, and the joined text is dispatched as one logical line: whatever
\* the physical line read after a continued line, it is added to the
\* chain, and dispatched with it unless it is continued too.
C26_ContinuationJoinsNextLine ==
  [][\A line \in PhysicalLines :
       (ScanLine(line) /\ currentLine # <<>>) => Joined(line)]_vars

\* the part of C26 the code keeps: a line that is neither blank nor a
\* comment is joined with the chain before it
ContinuationJoinsNextRecordLine ==
  [][\A line \in PhysicalLines :
       (ScanLine(line) /\ ~IsBlank(line) /\ ~StartsWithSlashes(line))
         => Joined(line)]_vars

\* C38: during parse and in the returned data, every id of the scene of the
\* current frame or of a pushed frame is a key of entities and is in the
\* kept set, the kept set is the key set of entities, and every id of the
\* mapping createSampledTrajectories returns is a key of entities.
C38_SceneIdsAreKeptEntities ==
  /\ SceneIds \subseteq DOMAIN entities
  /\ SceneIds \subseteq filteredIds
  /\ filteredIds = DOMAIN entities
  /\ DOMAIN trajectories \subseteq DOMAIN entities

\* a filtered parse kept one entity and dropped the other, a frame was
\* pushed with the kept one, and its trajectory was built
C38_Witness ==
  /\ pc = "done"
  /\ filter # {}
  /\ Cardinality(DOMAIN history.firstTypes) = 2
  /\ Cardinality(DOMAIN entities) = 1
  /\ DOMAIN trajectories = DOMAIN entities
  /\ Len(frames) >= 2

\* -------------------------------- two calls of parse on the same parser
\* the id of the entity rows of the text passed to call k
FileId(k) == IF k = 1 THEN 10 ELSE 11
\* entity rows of the texts
OverlapEntityRows ==
  [types : {NoTypes}, t : { << <<1>>, <<2>>, <<1>> >> },
   destroyed : {FALSE}, malformed : {FALSE}]

\* a new parser (part_003), parse not called yet
InitOverlap ==
  /\ pc = "idle"
  /\ header = NewHeader
  /\ lines = 0
  /\ filter = {}
  /\ isValid = TRUE
  /\ referenceTime = InvalidTime
  /\ timeSpan = NewTimeSpan
  /\ entities = [k \in {} |-> NewEntity(k)]
  /\ frames = <<>>
  /\ currentTimeStamp = 0
  /\ currentFrame = NewFrame(0, EmptyScene)
  /\ currentPushed = FALSE
  /\ destroyedIds = {}
  /\ filteredIds = {}
  /\ sampleRate = 1
  /\ timeStamp = 0
  /\ trajectories = [k \in {} |-> <<>>]
  /\ history = NewHistory
  /\ variant = "part_003"
  /\ input = [zipped |-> FALSE, entries |-> 1, extraction |-> "ok",
              content |-> <<>>]
  /\ controller = NoController
  /\ promise = Pending
  /\ step = "idle"
  /\ refLong = 0
  /\ refLat = 0
  /\ geoid = <<>>
  /\ currentLine = <<>>
  /\ dispatched = <<>>
  /\ emulateOrientation = FALSE
  /\ previous = <<>>
  /\ seenReference = NoReference
  /\ lastRoll = 0
  /\ turn = NoTurn
  /\ calls = NoCalls
  /\ thisData = 1
  /\ running = 0

\* parse(data) up to `await this._unzip(data)`: a new AcmiData and the
\* reset of the parsing state, then the call is suspended. Call 2 is made
\* after call 1, while call 1 is suspended or after it resolved; no call
\* is made while _parseBuffer runs.
CallParse(k) ==
  /\ running = 0
  /\ calls[k].state = "none"
  /\ k = 2 => calls[1].state # "none"
  /\ calls' = [calls EXCEPT ![k].state = "suspended"]
  /\ thisData' = thisData + 1
  /\ pc' = "awaiting"
  /\ header' = NewHeader
  /\ lines' = 0
  /\ filter' = {}
  /\ isValid' = TRUE
  /\ referenceTime' = InvalidTime
  /\ timeSpan' = NewTimeSpan
  /\ entities' = [j \in {} |-> NewEntity(j)]
  /\ frames' = <<>>
  /\ currentTimeStamp' = 0
  /\ currentFrame' = NewFrame(0, EmptyScene)
  /\ currentPushed' = FALSE
  /\ destroyedIds' = {}
  /\ filteredIds' = {}
  /\ history' = NewHistory
  /\ currentLine' = <<>>
  /\ seenReference' = NoReference
  /\ UNCHANGED << builderVars, asyncVars, staticVars, dispatched,
                  rebuildVars, rollVars, running >>

\* the suspended call k goes on after its await, in the order of the
\* calls: _parseBuffer starts on this._data with the header step on a
\* valid header
ResumeCall(k) ==
  /\ running = 0
  /\ calls[k].state = "suspended"
  /\ k = 2 => calls[1].state # "suspended"
  /\ running' = k
  /\ pc' = "parsing"
  /\ header' = [fileType |-> AcmiType, fileVersion |-> "2.2"]
  /\ isValid' = TRUE
  /\ lines' = 0
  /\ UNCHANGED << filter, referenceTime, timeSpan, entities, frames,
                  currentTimeStamp, currentFrame, currentPushed, destroyedIds,
                  filteredIds, builderVars, history >>
  /\ UNCHANGED << asyncVars, staticVars, scanVars, rebuildVars,
                  seenReference, rollVars, calls, thisData >>

\* `return this._data` of _parseBuffer: the call resolves with the
\* AcmiData the parser refers to now
ReturnData ==
  /\ running # 0
  /\ pc = "parsed"
  /\ calls' = [calls EXCEPT ![running] =
                 [state |-> "resolved", data |-> thisData]]
  /\ running' = 0
  /\ UNCHANGED << textVars, asyncVars, staticVars, scanVars, rebuildVars,
                  seenReference, rollVars, thisData >>

\* an entity row of the text of the call whose _parseBuffer runs
OwnEntityRow(row) == running # 0 /\ EntityUpsert(FileId(running), row)

NextOverlap ==
  \/ \E k \in 1 .. 2 : CallParse(k)
  \/ \E k \in 1 .. 2 : ResumeCall(k)
  \/ \E row \in GlobalRows : GlobalRow(row)
  \/ \E t \in {1} : TimeMarker(t)
  \/ \E row \in OverlapEntityRows : OwnEntityRow(row)
  \/ EndOfBuffer
  \/ ReturnData

SpecOverlap == InitOverlap /\ [][NextOverlap]_vars

\* C40: two calls of parse on one parser, the second made while the first
\* is suspended, each resolve with the AcmiData of their own input: the
\* two results are distinct objects, and the data a call returns holds no
\* entity and no scene entry of the other input.
C40_OverlappingCallsKeepTheirData ==
  /\ (calls[1].state = "resolved" /\ calls[2].state = "resolved")
       => calls[1].data # calls[2].data
  /\ (running # 0 /\ pc = "parsed") =>
       /\ DOMAIN entities \subseteq {FileId(running)}
       /\ SceneIds \subseteq {FileId(running)}

\* the part of C40 the code keeps: a call made after the first one
\* resolved returns its own data
SequentialCallsKeepTheirData ==
  (running = 2 /\ pc = "parsed" /\ calls[1].data # thisData) =>
    /\ DOMAIN entities \subseteq {FileId(2)}
    /\ SceneIds \subseteq {FileId(2)}

\* the frames of fs are the first frames of gs, unchanged
FramesKept(fs, gs) ==
  /\ Len(gs) >= Len(fs)
  /\ \A k \in 1 .. Len(fs) : gs[k] = fs[k]

\* C35: once a frame has been appended to the frames of an AcmiData, no
\* later record changes its timeStamp or its scene, and frames are only
\* appended to the list, never removed or reordered.
C35_PushedFramesImmutable ==
  [][thisData' = thisData => FramesKept(frames, frames')]_vars

\* --------------------------------------------- the slots of the T field
\* entity rows with a T field of 3 slots, of 5 slots `lon|lat|alt|u|v`, of
\* 6 slots and of 8 slots
SlotEntityRows ==
  [types : {NoTypes},
   t : { << <<1>>, <<2>>, <<1>> >>,
         << <<1>>, <<2>>, <<1>>, <<4>>, <<5>> >>,
         << <<>>, <<>>, <<>>, <<90>>, <<>>, <<>> >>,
         << <<1>>, <<>>, <<>>, <<4>>, <<5>>, <<90>>, <<>>, <<180>> >> },
   destroyed : {FALSE},
   malformed : {FALSE}]

NextSlots ==
  \/ \E row \in GlobalRows : GlobalRow(row)
  \/ \E t \in {1} : TimeMarker(t)
  \/ \E id \in Ids, row \in SlotEntityRows : EntityUpsert(id, row)
  \/ EndOfBuffer

SpecSlots == InitStatics /\ [][NextSlots]_vars

\* the orientation C33 gives a row: roll, pitch and yaw are slots 5, 6 and
\* 7 (counted from 0), each kept from the previous orientation when empty
ClaimedOrientation(t, hasPrev, prev) ==
  LET prevOri == IF hasPrev THEN prev.orientation ELSE <<>>
      angle(i) == IF Slot(t, 5 + i) # <<>> THEN ToRadians(Slot(t, 5 + i)[1])
                  ELSE IF prevOri # <<>> THEN prevOri[i] ELSE 0
  IN IF Slot(t, 6) # <<>> \/ Slot(t, 7) # <<>> \/ Slot(t, 8) # <<>>
     THEN << angle(1), angle(2), angle(3) >>
     ELSE prevOri

\* C33: of the slots of a `T=` value only slots 0, 1, 2 (longitude,
\* latitude, altitude) and 5, 6, 7 (roll, pitch, yaw) are read; slots 3 and
\* 4 (u, v) never change the transform, so a row of 5 slots sets no roll,
\* pitch or yaw.
C33_SlotMapping ==
  [][\A id \in Ids, row \in SlotEntityRows :
       EntityUpsert(id, row) =>
         currentFrame'.scene[id].orientation =
           ClaimedOrientation(row.t, SceneHas(currentFrame.scene, id),
             IF SceneHas(currentFrame.scene, id)
             THEN currentFrame.scene[id]
             ELSE [position |-> <<0, 0, 0>>, orientation |-> <<>>])]_vars

\* the part of C33 the code keeps: slots 0, 1 and 2 are the position, and a
\* row of 3 slots sets no roll, pitch or yaw
PositionSlotsRead ==
  [][\A id \in Ids, row \in SlotEntityRows :
       EntityUpsert(id, row) =>
         /\ Slot(row.t, 1) # <<>> =>
              currentFrame'.scene[id].position[1] = refLong + Slot(row.t, 1)[1]
         /\ Len(row.t) = 3 =>
              currentFrame'.scene[id].orientation =
                IF SceneHas(currentFrame.scene, id)
                THEN currentFrame.scene[id].orientation ELSE <<>>]_vars

\* the value a token leaves in a transform: the token's own value when it
\* is not empty, else the value the entity's transform had, else a default
Inherited(token, own, hasBefore, before, default) ==
  IF token # <<>> THEN own ELSE IF hasBefore THEN before ELSE default

Headings == {10, 190, 350}
\* _oneDegree, in thousandths of a degree
OneDegree == 1000
\* _alpha, in hundredths
SmoothAlpha == 5
Abs(x) == IF x < 0 THEN 0 - x ELSE x
Sign(x) == IF x < 0 THEN 0 - 1 ELSE IF x > 0 THEN 1 ELSE 0
\* Math.atan of an angle given in degrees and read as radians, in
\* thousandths of a degree, for the turn angles of Headings
Atan(a) ==
  Sign(a) * (CASE Abs(a) = 0 -> 0
               [] Abs(a) = 20 -> 19242
               [] Abs(a) = 160 -> 70298
               [] Abs(a) = 180 -> 72343)
\* _computeRoll up to `alpha`: the turn from heading h0 to heading h1
TurnAngle(h0, h1) ==
  LET delta == h1 - h0
      far == Abs(delta) > 180
      angle == IF far THEN 360 - Abs(delta) ELSE Abs(delta)
      turned == IF far THEN 360 + delta ELSE delta
  IN Sign(turned) * angle
\* _simpleSmooth(value, alpha): the value stored in _lastRoll and returned
SimpleSmooth(value, rollBefore) ==
  LET smoothed ==
        (SmoothAlpha * value + (100 - SmoothAlpha) * rollBefore) \div 100
  IN IF smoothed < OneDegree THEN 0 ELSE smoothed

\* a trajectory whose orientations are about to be emulated
InitRoll ==
  /\ pc = "emulating"
  /\ header = NewHeader
  /\ lines = 0
  /\ filter = {}
  /\ isValid = TRUE
  /\ referenceTime = InvalidTime
  /\ timeSpan = NewTimeSpan
  /\ entities = [k \in {} |-> NewEntity(k)]
  /\ frames = <<>>
  /\ currentTimeStamp = 0
  /\ currentFrame = NewFrame(0, EmptyScene)
  /\ currentPushed = FALSE
  /\ destroyedIds = {}
  /\ filteredIds = {}
  /\ sampleRate = 1
  /\ timeStamp = 0
  /\ trajectories = [k \in {} |-> <<>>]
  /\ history = NewHistory
  /\ variant = "part_003"
  /\ input = [zipped |-> FALSE, entries |-> 1, extraction |-> "ok",
              content |-> <<>>]
  /\ controller = NoController
  /\ promise = Pending
  /\ step = "idle"
  /\ refLong = 0
  /\ refLat = 0
  /\ geoid = <<>>
  /\ currentLine = <<>>
  /\ dispatched = <<>>
  /\ emulateOrientation = FALSE
  /\ previous = <<>>
  /\ seenReference = NoReference
  /\ lastRoll = 0
  /\ turn = NoTurn
  /\ calls = NoCalls
  /\ thisData = 1
  /\ running = 0

\* _computeRoll for the headings h0 and h1, with speed = _G0 * dt: the roll
\* is the smoothed arc tangent of the turn angle
ComputeRollCall(h0, h1) ==
  /\ pc = "emulating"
  /\ turn.n < MaxSamples
  /\ turn' = [h0 |-> h0, h1 |-> h1, alpha |-> TurnAngle(h0, h1),
              raw |-> Atan(TurnAngle(h0, h1)), n |-> turn.n + 1]
  /\ lastRoll' = SimpleSmooth(Atan(TurnAngle(h0, h1)), lastRoll)
  /\ UNCHANGED << textVars, asyncVars, staticVars, scanVars, rebuildVars,
                  seenReference, overlapVars >>

NextRoll == \E h0 \in Headings, h1 \in Headings : ComputeRollCall(h0, h1)

SpecRoll == InitRoll /\ [][NextRoll]_vars

\* C31: the roll smoother returns, and stores as the last roll,
\* alpha * raw + (1 - alpha) * lastRoll with alpha = 0.05, replaced by 0
\* exactly when its absolute value is below one degree: a roll of at least
\* one degree of magnitude is kept as it is, positive or negative.
C31_RollSmoother ==
  [][\A h0 \in Headings, h1 \in Headings :
       ComputeRollCall(h0, h1) =>
         LET value == (5 * turn'.raw + 95 * lastRoll) \div 100
         IN lastRoll' = IF Abs(value) < 1000 THEN 0 ELSE value]_vars

\* the part of C31 the code keeps: a roll of one degree or more to the
\* positive side is stored as it is, a smaller one as 0
PositiveRollSmoothed ==
  [][\A h0 \in Headings, h1 \in Headings :
       ComputeRollCall(h0, h1) =>
         LET value == (5 * turn'.raw + 95 * lastRoll) \div 100
         IN value >= 0 =>
              lastRoll' = IF value < 1000 THEN 0 ELSE value]_vars

\* C32: the heading difference takes the short way round: for two headings
\* in [0, 360) the turn angle is at most 180 degrees in magnitude and equals
\* h1 - h0 modulo 360, so from 10 to 350 it is -20 and from 350 to 10 it is
\* +20.
C32_HeadingDifferenceShortWay ==
  turn.n > 0 =>
    /\ Abs(turn.alpha) <= 180
    /\ (turn.alpha - (turn.h1 - turn.h0)) % 360 = 0

\* the part of C32 the code keeps: the magnitude of the turn angle is that
\* of the short way, and its sign is right for |h1 - h0| <= 180
TurnMagnitudeShortWay ==
  turn.n > 0 =>
    /\ Abs(turn.alpha) <= 180
    /\ \/ (turn.alpha - (turn.h1 - turn.h0)) % 360 = 0
       \/ (turn.alpha + (turn.h1 - turn.h0)) % 360 = 0
    /\ Abs(turn.h1 - turn.h0) <= 180 => turn.alpha = turn.h1 - turn.h0

\* ------------------------------------------------ the bytes of a buffer
\* most bytes of the content
MaxBytes == 5
\* the bytes of the content after the two header lines: a letter, a slash,
\* a backslash, a carriage return (0x0d), a line feed (0x0a)
Bytes == {"a", "/", "\\", "\r", "\n"}
ByteBuffers == UNION {[1 .. n -> Bytes] : n \in 0 .. MaxBytes}
\* the body of `if (index > 1)` in _parseContent for one decoded line:
\* [currentLine, dispatched] after it
LineScanned(line, buffered, sent) ==
  IF ~IsBlank(line) /\ ~StartsWithSlashes(line)
  THEN IF EndsWithBackslash(line)
       THEN [currentLine |-> buffered \o BackslashToNewline(line),
             dispatched |-> sent]
       ELSE [currentLine |-> <<>>,
             dispatched |-> Append(sent, buffered \o line)]
  ELSE [currentLine |-> buffered, dispatched |-> sent]
\* the while loop of _parseContent from the third physical line on;
\* current is the code's current + 1, start the code's start
RECURSIVE ScanBytes(_, _, _, _, _, _)
ScanBytes(buffer, current, start, previousCR, buffered, sent) ==
  IF current > Len(buffer)
  THEN [currentLine |-> buffered, dispatched |-> sent]
  ELSE IF buffer[current] = "\r"
  THEN ScanBytes(buffer, current + 1, start, TRUE, buffered, sent)
  ELSE IF buffer[current] = "\n"
  THEN LET lineEnd == IF previousCR THEN current - 2 ELSE current - 1
           line == SubSeq(buffer, start + 1, lineEnd)
           r == LineScanned(line, buffered, sent)
       IN ScanBytes(buffer, current + 1, current, FALSE, r.currentLine,
                    r.dispatched)
  ELSE ScanBytes(buffer, current + 1, start, previousCR, buffered, sent)

\* a parser at the third physical line of a buffer
InitBytes ==
  /\ pc = "scanning"
  /\ header = NewHeader
  /\ lines = 0
  /\ filter = {}
  /\ isValid = TRUE
  /\ referenceTime = InvalidTime
  /\ timeSpan = NewTimeSpan
  /\ entities = [k \in {} |-> NewEntity(k)]
  /\ frames = <<>>
  /\ currentTimeStamp = 0
  /\ currentFrame = NewFrame(0, EmptyScene)
  /\ currentPushed = FALSE
  /\ destroyedIds = {}
  /\ filteredIds = {}
  /\ sampleRate = 1
  /\ timeStamp = 0
  /\ trajectories = [k \in {} |-> <<>>]
  /\ history = NewHistory
  /\ variant = "part_003"
  /\ input \in [zipped : {FALSE}, entries : {1}, extraction : {"ok"},
               content : ByteBuffers]
  /\ controller = NoController
  /\ promise = Pending
  /\ step = "idle"
  /\ refLong = 0
  /\ refLat = 0
  /\ geoid = <<>>
  /\ currentLine = <<>>
  /\ dispatched = <<>>
  /\ emulateOrientation = FALSE
  /\ previous = <<>>
  /\ seenReference = NoReference
  /\ lastRoll = 0
  /\ turn = NoTurn
  /\ calls = NoCalls
  /\ thisData = 1
  /\ running = 0

\* the while loop of _parseContent over the bytes of the content; what
\* _parseLine decodes is left out
ScanBuffer ==
  LET r == ScanBytes(input.content, 1, 0, FALSE, currentLine, dispatched)
  IN /\ pc = "scanning"
     /\ pc' = "parsing"
     /\ currentLine' = r.currentLine
     /\ dispatched' = r.dispatched
     /\ UNCHANGED << header, lines, parserVars, builderVars, history >>
     /\ UNCHANGED << asyncVars, staticVars, rebuildVars, seenReference,
                     rollVars, overlapVars >>

NextBytes == ScanBuffer \/ EndOfBuffer

SpecBytes == InitBytes /\ [][NextBytes]_vars

\* the physical lines C36 and C37 describe: the bytes between two line
\* feeds, less one carriage return when it is the byte before the line
\* feed, and the bytes after the last line feed when there are some
RECURSIVE LinesOf(_, _, _)
LinesOf(buffer, from, acc) ==
  LET feeds == {i \in from .. Len(buffer) : buffer[i] = "\n"}
  IN IF feeds = {}
     THEN IF from <= Len(buffer)
          THEN Append(acc, SubSeq(buffer, from, Len(buffer))) ELSE acc
     ELSE LET lf == CHOOSE i \in feeds : \A j \in feeds : i <= j
              last == IF lf > from /\ buffer[lf - 1] = "\r"
                      THEN lf - 2 ELSE lf - 1
          IN LinesOf(buffer, lf + 1, Append(acc, SubSeq(buffer, from, last)))
\* the logical lines of a sequence of physical lines, the chain still open
\* after the last one included
RECURSIVE LogicalLines(_, _, _, _)
LogicalLines(physical, i, buffered, sent) ==
  IF i > Len(physical)
  THEN IF buffered # <<>> THEN Append(sent, buffered) ELSE sent
  ELSE LET r == LineScanned(physical[i], buffered, sent)
       IN LogicalLines(physical, i + 1, r.currentLine, r.dispatched)
ExpectedDispatch(buffer) ==
  LogicalLines(LinesOf(buffer, 1, <<>>), 1, <<>>, <<>>)
HasNoCR(buffer) == \A i \in 1 .. Len(buffer) : buffer[i] # "\r"
\* the buffer ends with a line feed and with no chain left open
EndsClosed(buffer) ==
  /\ buffer # <<>> => buffer[Len(buffer)] = "\n"
  /\ ScanBytes(buffer, 1, 0, FALSE, <<>>, <<>>).currentLine = <<>>
\* every carriage return of the buffer is the byte before a line feed
EveryCRBeforeLF(buffer) ==
  \A i \in 1 .. Len(buffer) :
    buffer[i] = "\r" => (i < Len(buffer) /\ buffer[i + 1] = "\n")

\* C36: every logical line from the third physical line on that is neither
\* blank nor a comment is dispatched exactly once, in source order,
\* including a last line that no line feed ends and a continuation chain
\* still open at the end of the buffer.
C36_EveryLogicalLineDispatched ==
  (pc # "scanning" /\ HasNoCR(input.content)) =>
    dispatched = ExpectedDispatch(input.content)

\* the part of C36 the code keeps: in a buffer that ends with a line feed
\* and leaves no chain open, every logical line is dispatched once, in order
LinesBeforeLastFeedDispatched ==
  (pc # "scanning" /\ HasNoCR(input.content) /\ EndsClosed(input.content)) =>
    dispatched = ExpectedDispatch(input.content)

\* C37: the text of a line is the bytes between two line feeds, less one
\* carriage return only when it is the byte just before the line feed: a
\* carriage return anywhere else in the line never makes the line lose its
\* last character.
C37_OnlyCRBeforeLFDropped ==
  (pc # "scanning" /\ EndsClosed(input.content)) =>
    dispatched = ExpectedDispatch(input.content)

\* the part of C37 the code keeps: a carriage return just before the line
\* feed is dropped from the line, and no other byte is
CRBeforeLFDropped ==
  (pc # "scanning" /\ EndsClosed(input.content)
     /\ EveryCRBeforeLF(input.content)) =>
    dispatched = ExpectedDispatch(input.content)

\* ------------------------------------------ sample rates of any value
\* options.sampleRate is not validated: a rate of 0, a negative rate, a
\* positive rate
AnyRates == {0 - 1, 0, 1}
\* one iteration of the do-while loop; the time stamp of a negative rate is
\* followed down to -MaxTime
SampleStepAnyRate == timeStamp >= 0 - MaxTime /\ SampleStep

NextRates ==
  \/ NextRecords
  \/ \E rate \in AnyRates : CreateSampledTrajectories(rate)
  \/ SampleStepAnyRate
  \/ TailStep

SpecRates == InitRecords /\ [][NextRates]_vars

\* C39: createSampledTrajectories terminates for every data and every
\* options value, after at most floor(duration / sampleRate) + 1 steps of
\* the sampling loop and one tail step, for every sample rate, 0 and the
\* negative ones included: every step that stays in the loop has brought
\* the time stamp nearer to the duration, which the loop cannot pass.
C39_SamplingTerminates ==
  [][(pc = "sampling" /\ pc' = "sampling") =>
       (timeStamp' > timeStamp
          /\ timeStamp' <= TimeSpanDuration(timeSpan))]_vars

\* the part of C39 the code keeps: with a positive sample rate every step
\* that stays in the loop has brought the time stamp nearer to the duration
PositiveRateTerminates ==
  [][(pc = "sampling" /\ pc' = "sampling" /\ sampleRate > 0) =>
       (timeStamp' > timeStamp
          /\ timeStamp' <= TimeSpanDuration(timeSpan))]_vars
====
